---- MODULE Spec2Model ----
(***************************************************************************)
(* Model of the nomad-traefik-cloudflare-controller: the node resolver     *)
(* (nomad/client.go GetTraefikNodes), the DNS sync (cloudflare.go          *)
(* SyncARecords), one reconciliation pass (main.go syncDNSRecords) and the *)
(* control loop with its event watcher goroutine (main.go Run).            *)
(***************************************************************************)
EXTENDS Integers, Sequences, FiniteSets, TLC

(***************************************************************************)
(* Bounds of the model.                                                    *)
(***************************************************************************)
NumAddrs == 3
NumNodes == 2
MaxAllocs == 2
MaxIPs == 2
MaxRecords == 2
MaxPasses == 2
MaxStreamEvents == 2
MaxCreated == 2
MaxIndex == 2

\* capacities of eventChan and eventErrorChan
EventChanCap == 100
ErrorChanCap == 1
\* the debounce sleep, in seconds
DebounceSeconds == 2

AddrPool == <<"1.1.1.1", "2.2.2.2", "3.3.3.3", "4.4.4.4", "5.5.5.5">>
NodePool == <<"node-1", "node-2", "node-3", "node-4">>
AllocPool == <<"alloc-1", "alloc-2", "alloc-3", "alloc-4">>

Addrs == {AddrPool[i] : i \in 1..NumAddrs}
NodeIds == {NodePool[i] : i \in 1..NumNodes}

\* record ids are strings the provider assigns; a call that carries none has ""
RecID(n) == "rec-" \o ToString(n)
NoID == ""
\* error values of a pass
NoErr == "nil"
ErrAllocations == "Failed to get allocations"
ErrListRecords == "failed to get current A records"
\* client.go:61: what the resolver logs when Nodes().Info fails
ErrNodeInfo == "Failed to get node info"
\* cloudflare.go:158: what SyncARecords logs when CreateARecord fails
ErrCreate == "Error creating record"

Range(s) == {s[i] : i \in DOMAIN s}

\* all orders in which a Go map iteration can visit the finite set S
Orders(S) ==
    {q \in [1..Cardinality(S) -> S] : \A i, j \in 1..Cardinality(S) : i # j => q[i] # q[j]}

\* counters of passes are kept up to MaxPasses and stay there
Inc(n) == IF n < MaxPasses THEN n + 1 ELSE n

(***************************************************************************)
(* config.go: LoadConfig on the process environment. Of the two editions   *)
(* of the file the one modelled has the field CloudflareZoneId, which      *)
(* cloudflare.go and the tests of the package are written against.         *)
(***************************************************************************)
EnvNames == {"NOMAD_ADDR", "NOMAD_TOKEN", "CLOUDFLARE_API_TOKEN", "CLOUDFLARE_ZONE_ID",
             "TRAEFIK_JOB_NAME", "DNS_RECORD_NAME", "LOG_LEVEL"}
DefaultNomadAddr == "http://localhost:8686"
DefaultLogLevel == "info"

\* a variable of the environment: not set, or set to a string
NotSet == [set |-> FALSE, value |-> ""]
Setenv(v) == [set |-> TRUE, value |-> v]
EnvValues == {NotSet, Setenv(""), Setenv("custom")}
Environments == [EnvNames -> EnvValues]

\* os.Getenv: the value, "" when the variable is not set
Getenv(env, key) == IF env[key].set THEN env[key].value ELSE ""

\* faulty variant of getEnvOrDefault: the default is used for an unset variable only
getEnvOrDefaultIfUnset(env, key, defaultValue) ==
    IF env[key].set THEN env[key].value ELSE defaultValue

\* config.go:25-30
getEnvOrDefault(env, key, defaultValue) ==
    IF Getenv(env, key) # "" THEN Getenv(env, key) ELSE defaultValue

\* the nil *Config
NilConfig == [isNil |-> TRUE, NomadAddress |-> "", NomadToken |-> "", CloudflareToken |-> "",
              CloudflareZoneId |-> "", TraefikJobName |-> "", DNSRecordName |-> "",
              LogLevel |-> ""]

ErrNoCloudflareToken == "CLOUDFLARE_API_TOKEN is not set and is required."
ErrNoCloudflareZone == "CLOUDFLARE_ZONE_ID is not set and is required."
ErrNoNomadToken == "Nomad token is not set and is required."

\* config.go:35-43: the struct LoadConfig fills
ReadConfig(env) ==
    [isNil |-> FALSE,
     NomadAddress |-> getEnvOrDefault(env, "NOMAD_ADDR", DefaultNomadAddr),
     NomadToken |-> Getenv(env, "NOMAD_TOKEN"),
     CloudflareToken |-> Getenv(env, "CLOUDFLARE_API_TOKEN"),
     CloudflareZoneId |-> Getenv(env, "CLOUDFLARE_ZONE_ID"),
     TraefikJobName |-> Getenv(env, "TRAEFIK_JOB_NAME"),
     DNSRecordName |-> Getenv(env, "DNS_RECORD_NAME"),
     LogLevel |-> getEnvOrDefault(env, "LOG_LEVEL", DefaultLogLevel)]

\* faulty variant of LoadConfig: the zone is checked before the token
LoadConfigZoneFirst(env) ==
    LET cfg == ReadConfig(env) IN
    IF cfg.CloudflareZoneId = "" THEN [cfg |-> NilConfig, err |-> ErrNoCloudflareZone]
    ELSE IF cfg.CloudflareToken = "" THEN [cfg |-> NilConfig, err |-> ErrNoCloudflareToken]
    ELSE IF cfg.NomadToken = "" THEN [cfg |-> NilConfig, err |-> ErrNoNomadToken]
    ELSE [cfg |-> cfg, err |-> NoErr]

\* config.go:34-59: the configuration and the error LoadConfig returns
LoadConfig(env) ==
    LET cfg == ReadConfig(env) IN
    IF cfg.CloudflareToken = "" THEN [cfg |-> NilConfig, err |-> ErrNoCloudflareToken]
    ELSE IF cfg.CloudflareZoneId = "" THEN [cfg |-> NilConfig, err |-> ErrNoCloudflareZone]
    ELSE IF cfg.NomadToken = "" THEN [cfg |-> NilConfig, err |-> ErrNoNomadToken]
    ELSE [cfg |-> cfg, err |-> NoErr]

\* the environment of a deployed controller: every variable is set
DeployedEnv == [k \in EnvNames |-> Setenv("custom")]

(***************************************************************************)
(* cloudflare.go: SyncARecords and the provider calls it makes.            *)
(***************************************************************************)

\* currentTargets: content -> record id; a later record of the listing
\* overwrites an earlier one with the same content
currentTargets(currentRecords) ==
    [c \in {currentRecords[i].Content : i \in DOMAIN currentRecords} |->
        LET last == CHOOSE i \in DOMAIN currentRecords :
                        /\ currentRecords[i].Content = c
                        /\ \A j \in DOMAIN currentRecords :
                               currentRecords[j].Content = c => j <= i
        IN  currentRecords[last].ID]

targetSet(targetIPs) == Range(targetIPs)

\* faulty variant of DeleteOrders: the ids come from the content-keyed map
\* also when there is no target
DeleteOrdersByMapOnly(currentRecords, targetIPs) ==
    Orders({currentTargets(currentRecords)[c] :
                c \in DOMAIN currentTargets(currentRecords) \ targetSet(targetIPs)})

\* faulty variant of DeleteOrders: a tear-down, every listed record is deleted
DeleteOrdersTearDown(currentRecords, targetIPs) ==
    {[i \in DOMAIN currentRecords |-> currentRecords[i].ID]}

\* the sequences of record ids the delete loop can pass to DeleteARecord:
\* the whole listing in order when there is no target, otherwise the ids
\* kept in currentTargets whose content is no target, in map order
DeleteOrdersSkipDuplicates(currentRecords, targetIPs) ==
    IF Len(targetIPs) = 0
    THEN {[i \in DOMAIN currentRecords |-> currentRecords[i].ID]}
    ELSE Orders({currentTargets(currentRecords)[c] :
                    c \in {d \in DOMAIN currentTargets(currentRecords) \ targetSet(targetIPs) :
                              Cardinality({i \in DOMAIN currentRecords :
                                              currentRecords[i].Content = d}) = 1}})

DeleteOrders(currentRecords, targetIPs) ==
    IF Len(targetIPs) = 0
    THEN {[i \in DOMAIN currentRecords |-> currentRecords[i].ID]}
    ELSE Orders({currentTargets(currentRecords)[c] :
                    c \in DOMAIN currentTargets(currentRecords) \ targetSet(targetIPs)})

\* the sequence of targets the create loop passes to CreateARecord
CreateTargets(currentRecords, targetIPs) ==
    IF Len(targetIPs) = 0
    THEN << >>
    ELSE SelectSeq(targetIPs, LAMBDA t : t \notin DOMAIN currentTargets(currentRecords))

\* the provider's record list after a successful DeleteDNSRecord / CreateDNSRecord
DeleteARecord(recs, recordID) == SelectSeq(recs, LAMBDA r : r.ID # recordID)
CreateARecord(recs, newID, target) == Append(recs, [ID |-> newID, Content |-> target])
\* the provider's record list after a successful UpdateDNSRecord
UpdateARecord(recs, recordID, target) ==
    [i \in DOMAIN recs |-> IF recs[i].ID = recordID
                           THEN [ID |-> recordID, Content |-> target]
                           ELSE recs[i]]

(***************************************************************************)
(* nomad/client.go GetTraefikNodes and main.go:200-207.                    *)
(***************************************************************************)

\* faulty variant: every allocation counts
IsRunningAny(alloc) == TRUE

IsRunning(alloc) == alloc.ClientStatus = "running"

\* faulty variant: one map entry per allocation
nodeMapKeyByAlloc(alloc, node) == alloc.ID

\* the key under which the node of an allocation is stored in nodeMap
nodeMapKey(alloc, node) == node.ID

\* faulty variant: the status is not looked at
IsEligibleAnyStatus(node) == node.PublicIPAddress # ""

\* main.go:203
IsEligible(node) == node.Status = "ready" /\ node.PublicIPAddress # ""

\* main.go:201-207: the addresses of the eligible nodes, in the order of nodes
ExtractIPs(nodeList) ==
    LET pick == SelectSeq(nodeList, IsEligible)
    IN  [i \in DOMAIN pick |-> pick[i].PublicIPAddress]

(***************************************************************************)
(* Input spaces.                                                           *)
(***************************************************************************)
AllocStatuses == {"running", "pending", "failed"}
NodeStatuses == {"ready", "down"}

\* NumNodes nodes have at most NumNodes different addresses; "" is a node
\* without the unique.network.ip-address attribute
NodeAddrs == {AddrPool[i] : i \in 1..NumNodes} \cup {""}
NodeRecords == [Status : NodeStatuses, PublicIPAddress : NodeAddrs]

AllocLists ==
    UNION {{[i \in 1..n |-> [ID |-> AllocPool[i], NodeID |-> f[i].n, ClientStatus |-> f[i].s]] :
               f \in [1..n -> [n : NodeIds, s : AllocStatuses]]} : n \in 0..MaxAllocs}

IPLists == UNION {[1..n -> Addrs] : n \in 0..MaxIPs}

RecordLists ==
    UNION {{[i \in 1..n |-> [ID |-> RecID(i), Content |-> f[i]]] : f \in [1..n -> Addrs]} :
              n \in 0..MaxRecords}

\* a value of the loosely typed payload map under one key: absent, a string,
\* or a value of another type (str is then its printed form)
Absent == [present |-> FALSE, isString |-> FALSE, str |-> ""]
StringValue(s) == [present |-> TRUE, isString |-> TRUE, str |-> s]
OtherValue(s) == [present |-> TRUE, isString |-> FALSE, str |-> s]
\* event.Payload: nil, or a map that may hold "NodeID" and "JobID"
NilPayload == [isNil |-> TRUE, NodeID |-> Absent, JobID |-> Absent]
MapPayload(nodeID, jobID) == [isNil |-> FALSE, NodeID |-> nodeID, JobID |-> jobID]

\* raw stream events: the four accepted types, another type and the empty
\* type, with every shape of payload
EventTypes == {"AllocationUpdated", "NodeUpdated", "JobRegistered", "JobDeregistered",
               "SomeOtherEvent", ""}
PayloadValues == {Absent, StringValue("id-1"), StringValue(""), OtherValue("123")}
Payloads == {NilPayload} \cup {MapPayload(n, j) : n, j \in PayloadValues}
RawEvents == [Type : EventTypes, Index : 0..MaxIndex, Payload : Payloads]

VARIABLES
    allocations,    \* orchestrator: the job's allocations
    nodeInfo,       \* orchestrator: node id -> [Status, PublicIPAddress]
    records,        \* provider: the published A records of the hostname
    nextID,         \* provider: the number of the id the next created record gets
    passPc,         \* position inside syncDNSRecords
    allocList,      \* GetTraefikNodes: allocations still to visit
    nodeMap,        \* GetTraefikNodes: nodeMap
    lookups,        \* the node lookups of this pass: node id and outcome
    nodes,          \* syncDNSRecords: nodes
    ips,            \* syncDNSRecords: ips / SyncARecords: targetIPs
    currentRecords, \* SyncARecords: currentRecords
    delQueue,       \* SyncARecords: ids the delete loop has still to visit
    createQueue,    \* SyncARecords: targets the create loop has still to visit
    calls,          \* provider calls issued by the current pass
    lastCalls,      \* SpecSync: provider calls of the preceding run of SyncARecords
    passErr,        \* the error the pass returns
    passCount,      \* passes started (saturating at MaxPasses)
    inflight,       \* activations of syncDNSRecords that have not returned
    pc,             \* Run: position of the control loop
    runResult,      \* Run: the error it returned
    ctxDone,        \* the context of main is cancelled
    tickerArmed,    \* Run: the ticker exists and is not stopped
    tickReady,      \* Run: a tick waits in ticker.C
    eventChan,      \* Run: eventChan
    eventErrorChan, \* Run: eventErrorChan
    wpc,            \* watcher goroutine: position
    werr,           \* watcher goroutine: the error WatchEvents returned
    pending,        \* WatchEvents: events of the current wrapper not yet handled
    streamed,       \* raw events the stream has delivered
    ready,          \* metrics.Server.ready
    metrics,        \* metrics.AppMetrics
    sleepLeft,      \* Run: seconds the debounce sleep has still to last
    inWait,         \* for each queued event: it was queued during a debounce sleep
    environ,        \* the environment variables of the process
    config,         \* main: cfg, the *Config LoadConfig returned
    loadErr         \* main: the error LoadConfig returned

envVars == <<allocations, nodeInfo, environ, config, loadErr>>
loopVars == <<pc, runResult, ctxDone, tickerArmed, tickReady, eventChan, eventErrorChan,
              wpc, werr, pending, streamed, ready, metrics, sleepLeft, inWait>>
vars == <<allocations, nodeInfo, records, nextID, passPc, allocList, nodeMap, lookups,
          nodes, ips, currentRecords, delQueue, createQueue, calls, lastCalls, passErr,
          passCount, inflight, pc, runResult, ctxDone, tickerArmed, tickReady, eventChan,
          eventErrorChan, wpc, werr, pending, streamed, ready, metrics, sleepLeft, inWait,
          environ, config, loadErr>>

\* main.go:55-59 have passed: the configuration is loaded
InitConfigured ==
    /\ environ = DeployedEnv
    /\ config = LoadConfig(DeployedEnv).cfg
    /\ loadErr = NoErr

\* a provider call carries the context: it fails once the context is cancelled
ProviderOutcomes == IF ctxDone THEN {FALSE} ELSE BOOLEAN

\* faulty variant of Call: the listing and the create name no hostname
CallAnyName(op, id, content, ok) ==
    [op |-> op, name |-> "", id |-> id, content |-> content, ok |-> ok]

\* a request to the provider and its outcome: ListDNSRecords, CreateDNSRecord
\* and UpdateDNSRecord carry c.config.DNSRecordName (cloudflare.go:34-37,
\* 65-70, 86-92), DeleteDNSRecord carries the record id alone (cloudflare.go:106)
Call(op, id, content, ok) ==
    [op |-> op, name |-> IF op = "delete" THEN "" ELSE config.DNSRecordName,
     id |-> id, content |-> content, ok |-> ok]

\* the provider creates at most MaxCreated records in a run; further creates fail
MaxID == MaxRecords + MaxCreated
CreateOutcomes == IF nextID > MaxID THEN {FALSE} ELSE ProviderOutcomes

EmptyMap == [k \in {} |-> 0]

\* metrics.go:46-71: the counters and gauges NewServer registers
InitMetrics == [isNil |-> FALSE, SyncTotal |-> 0, SyncErrors |-> 0, DNSRecordsTotal |-> 0,
                TraefikNodes |-> 0, LastSyncSet |-> FALSE]
\* metrics.go:34: AppMetrics before any NewServer call, the nil pointer
NilMetrics == [isNil |-> TRUE, SyncTotal |-> 0, SyncErrors |-> 0, DNSRecordsTotal |-> 0,
               TraefikNodes |-> 0, LastSyncSet |-> FALSE]

(***************************************************************************)
(* GetTraefikNodes, one action per step.                                   *)
(***************************************************************************)

\* faulty variant of GetAllocations: after a failed listing the pass goes on
\* with no allocation
GetAllocationsGoOn ==
    /\ passPc = "allocs"
    /\ \/ /\ allocList' = allocations
          /\ passPc' = "nodes"
          /\ passErr' = passErr
       \/ /\ allocList' = << >>
          /\ passErr' = ErrAllocations
          /\ passPc' = "nodes"
    /\ UNCHANGED <<loopVars, envVars, records, nextID, nodeMap, lookups, nodes, ips, currentRecords,
                   delQueue, createQueue, calls, lastCalls, passCount, inflight>>

\* client.go:42-46: list the allocations of the job
GetAllocations ==
    /\ passPc = "allocs"
    /\ \/ /\ allocList' = allocations
          /\ passPc' = "nodes"
          /\ passErr' = passErr
       \/ /\ allocList' = << >>
          /\ passErr' = ErrAllocations
          /\ passPc' = "end"
    /\ UNCHANGED <<loopVars, envVars, records, nextID, nodeMap, lookups, nodes, ips, currentRecords,
                   delQueue, createQueue, calls, lastCalls, passCount, inflight>>

\* faulty variant of NodeLoop: a failed node lookup ends the resolver with an error
NodeLoopAbort ==
    /\ passPc = "nodes"
    /\ allocList # << >>
    /\ LET alloc == Head(allocList) IN
         \/ /\ ~IsRunning(alloc)
            /\ allocList' = Tail(allocList)
            /\ UNCHANGED <<nodeMap, lookups, passPc, passErr>>
         \/ /\ IsRunning(alloc)
            /\ \/ /\ lookups' = Append(lookups, [NodeID |-> alloc.NodeID, ok |-> FALSE])
                  /\ allocList' = << >>
                  /\ passErr' = ErrNodeInfo
                  /\ passPc' = "end"
                  /\ UNCHANGED nodeMap
               \/ /\ lookups' = Append(lookups, [NodeID |-> alloc.NodeID, ok |-> TRUE])
                  /\ allocList' = Tail(allocList)
                  /\ UNCHANGED <<passPc, passErr>>
                  /\ LET node == [ID |-> alloc.NodeID,
                                  PublicIPAddress |-> nodeInfo[alloc.NodeID].PublicIPAddress,
                                  Status |-> nodeInfo[alloc.NodeID].Status]
                         key == nodeMapKey(alloc, node)
                     IN  nodeMap' = [k \in DOMAIN nodeMap \cup {key} |->
                                        IF k = key THEN node ELSE nodeMap[k]]
    /\ UNCHANGED <<loopVars, envVars, records, nextID, nodes, ips, currentRecords, delQueue,
                   createQueue, calls, lastCalls, passCount, inflight>>

\* client.go:52-81: one iteration of the loop over the allocations; a lookup
\* that fails (client.go:59-62) is logged and the loop continues
NodeLoop ==
    /\ passPc = "nodes"
    /\ allocList # << >>
    /\ LET alloc == Head(allocList) IN
         \/ /\ ~IsRunning(alloc)
            /\ UNCHANGED <<nodeMap, lookups>>
         \/ /\ IsRunning(alloc)
            /\ \/ /\ lookups' = Append(lookups, [NodeID |-> alloc.NodeID, ok |-> FALSE])
                  /\ UNCHANGED nodeMap
               \/ /\ lookups' = Append(lookups, [NodeID |-> alloc.NodeID, ok |-> TRUE])
                  /\ LET node == [ID |-> alloc.NodeID,
                                  PublicIPAddress |-> nodeInfo[alloc.NodeID].PublicIPAddress,
                                  Status |-> nodeInfo[alloc.NodeID].Status]
                         key == nodeMapKey(alloc, node)
                     IN  nodeMap' = [k \in DOMAIN nodeMap \cup {key} |->
                                        IF k = key THEN node ELSE nodeMap[k]]
    /\ allocList' = Tail(allocList)
    /\ UNCHANGED <<loopVars, envVars, records, nextID, passPc, nodes, ips, currentRecords, delQueue,
                   createQueue, calls, lastCalls, passErr, passCount, inflight>>

\* client.go:83-88: the map becomes a slice, in map order
NodesReturn ==
    /\ passPc = "nodes"
    /\ allocList = << >>
    /\ \E order \in Orders(DOMAIN nodeMap) :
           nodes' = [i \in DOMAIN order |-> nodeMap[order[i]]]
    /\ passPc' = "extract"
    /\ UNCHANGED <<loopVars, envVars, records, nextID, allocList, nodeMap, lookups, ips,
                   currentRecords, delQueue, createQueue, calls, lastCalls, passErr,
                   passCount, inflight>>

\* main.go:198-207
ExtractStep ==
    /\ passPc = "extract"
    /\ ips' = ExtractIPs(nodes)
    /\ passPc' = "list"
    /\ UNCHANGED <<loopVars, envVars, records, nextID, allocList, nodeMap, lookups, nodes,
                   currentRecords, delQueue, createQueue, calls, lastCalls, passErr,
                   passCount, inflight>>

(***************************************************************************)
(* SyncARecords, one action per provider call.                             *)
(***************************************************************************)

\* faulty variant of SyncList: a pass that follows a failed pass plans no
\* deletion (the error counter is carried into the plan)
SyncListAfterError ==
    /\ passPc = "list"
    /\ \/ /\ TRUE \in ProviderOutcomes
          /\ currentRecords' = records
          /\ calls' = Append(calls, Call("list", NoID, "", TRUE))
          /\ \E q \in DeleteOrders(records, ips) :
                 delQueue' = IF metrics.SyncErrors > 0 THEN << >> ELSE q
          /\ createQueue' = CreateTargets(records, ips)
          /\ passPc' = "delete"
          /\ passErr' = passErr
       \/ /\ calls' = Append(calls, Call("list", NoID, "", FALSE))
          /\ passErr' = ErrListRecords
          /\ passPc' = "end"
          /\ UNCHANGED <<currentRecords, delQueue, createQueue>>
    /\ UNCHANGED <<loopVars, envVars, records, nextID, allocList, nodeMap, lookups, nodes, ips,
                   lastCalls, passCount, inflight>>

\* cloudflare.go:116-142: list the records and plan the two loops
SyncList ==
    /\ passPc = "list"
    /\ \/ /\ TRUE \in ProviderOutcomes
          /\ currentRecords' = records
          /\ calls' = Append(calls, Call("list", NoID, "", TRUE))
          /\ \E q \in DeleteOrders(records, ips) : delQueue' = q
          /\ createQueue' = CreateTargets(records, ips)
          /\ passPc' = "delete"
          /\ passErr' = passErr
       \/ /\ calls' = Append(calls, Call("list", NoID, "", FALSE))
          /\ passErr' = ErrListRecords
          /\ passPc' = "end"
          /\ UNCHANGED <<currentRecords, delQueue, createQueue>>
    /\ UNCHANGED <<loopVars, envVars, records, nextID, allocList, nodeMap, lookups, nodes, ips,
                   lastCalls, passCount, inflight>>

\* faulty variant of SyncDelete: a failed delete ends the batch
SyncDeleteStop ==
    /\ passPc = "delete"
    /\ delQueue # << >>
    /\ \E ok \in ProviderOutcomes :
          /\ calls' = Append(calls, Call("delete", Head(delQueue), "", ok))
          /\ records' = IF ok THEN DeleteARecord(records, Head(delQueue)) ELSE records
          /\ delQueue' = IF ok THEN Tail(delQueue) ELSE << >>
          /\ createQueue' = IF ok THEN createQueue ELSE << >>
    /\ UNCHANGED <<loopVars, envVars, nextID, passPc, allocList, nodeMap, lookups, nodes, ips,
                   currentRecords, lastCalls, passErr, passCount, inflight>>

\* cloudflare.go:125-129 and 145-151: one DeleteARecord call
SyncDelete ==
    /\ passPc = "delete"
    /\ delQueue # << >>
    /\ \E ok \in ProviderOutcomes :
          /\ calls' = Append(calls, Call("delete", Head(delQueue), "", ok))
          /\ records' = IF ok THEN DeleteARecord(records, Head(delQueue)) ELSE records
    /\ delQueue' = Tail(delQueue)
    /\ UNCHANGED <<loopVars, envVars, nextID, passPc, allocList, nodeMap, lookups, nodes, ips,
                   currentRecords, createQueue, lastCalls, passErr, passCount, inflight>>

\* faulty variant of SyncCreate: a create does not wait for the delete loop
SyncCreateEarly ==
    /\ passPc = "delete"
    /\ createQueue # << >>
    /\ \E ok \in CreateOutcomes :
          /\ calls' = Append(calls, Call("create", IF ok THEN RecID(nextID) ELSE NoID,
                                         Head(createQueue), ok))
          /\ records' = IF ok THEN CreateARecord(records, RecID(nextID), Head(createQueue))
                              ELSE records
          /\ nextID' = IF ok THEN nextID + 1 ELSE nextID
    /\ createQueue' = Tail(createQueue)
    /\ UNCHANGED <<loopVars, envVars, passPc, allocList, nodeMap, lookups, nodes, ips,
                   currentRecords, delQueue, lastCalls, passErr, passCount, inflight>>

\* faulty variant of SyncCreate: a failed create becomes the error of the pass
SyncCreateReports ==
    /\ passPc = "delete"
    /\ delQueue = << >>
    /\ createQueue # << >>
    /\ \E ok \in CreateOutcomes :
          /\ calls' = Append(calls, Call("create", IF ok THEN RecID(nextID) ELSE NoID,
                                         Head(createQueue), ok))
          /\ records' = IF ok THEN CreateARecord(records, RecID(nextID), Head(createQueue))
                              ELSE records
          /\ nextID' = IF ok THEN nextID + 1 ELSE nextID
          /\ passErr' = IF ok THEN passErr ELSE ErrCreate
    /\ createQueue' = Tail(createQueue)
    /\ UNCHANGED <<loopVars, envVars, passPc, allocList, nodeMap, lookups, nodes, ips,
                   currentRecords, delQueue, lastCalls, passCount, inflight>>

\* cloudflare.go:154-161: one CreateARecord call
SyncCreate ==
    /\ passPc = "delete"
    /\ delQueue = << >>
    /\ createQueue # << >>
    /\ \E ok \in CreateOutcomes :
          /\ calls' = Append(calls, Call("create", IF ok THEN RecID(nextID) ELSE NoID,
                                         Head(createQueue), ok))
          /\ records' = IF ok THEN CreateARecord(records, RecID(nextID), Head(createQueue))
                              ELSE records
          /\ nextID' = IF ok THEN nextID + 1 ELSE nextID
    /\ createQueue' = Tail(createQueue)
    /\ UNCHANGED <<loopVars, envVars, passPc, allocList, nodeMap, lookups, nodes, ips,
                   currentRecords, delQueue, lastCalls, passErr, passCount, inflight>>

\* cloudflare.go:130 and 163: SyncARecords returns nil
SyncReturn ==
    /\ passPc = "delete"
    /\ delQueue = << >>
    /\ createQueue = << >>
    /\ passPc' = "end"
    /\ UNCHANGED <<loopVars, envVars, records, nextID, allocList, nodeMap, lookups, nodes, ips,
                   currentRecords, delQueue, createQueue, calls, lastCalls, passErr,
                   passCount, inflight>>

(***************************************************************************)
(* SpecSync: SyncARecords on every target list and record list, run        *)
(* MaxPasses times in a row with the same targets.                         *)
(***************************************************************************)
\* the functions are applied outside Run: no loop, no watcher
InitDetached ==
    /\ pc = "none"
    /\ runResult = NoErr
    /\ ctxDone = FALSE
    /\ tickerArmed = FALSE
    /\ tickReady = FALSE
    /\ eventChan = << >>
    /\ eventErrorChan = << >>
    /\ wpc = "none"
    /\ werr = NoErr
    /\ pending = << >>
    /\ streamed = 0
    /\ ready = FALSE
    /\ metrics = InitMetrics
    /\ sleepLeft = 0
    /\ inWait = << >>
    /\ InitConfigured

InitSync ==
    /\ InitDetached
    /\ allocations = << >>
    /\ nodeInfo = [n \in NodeIds |-> [Status |-> "ready", PublicIPAddress |-> ""]]
    /\ records \in RecordLists
    /\ nextID = Len(records) + 1
    /\ passPc = "list"
    /\ allocList = << >>
    /\ nodeMap = EmptyMap
    /\ lookups = << >>
    /\ nodes = << >>
    /\ ips \in IPLists
    /\ currentRecords = << >>
    /\ delQueue = << >>
    /\ createQueue = << >>
    /\ calls = << >>
    /\ lastCalls = << >>
    /\ passErr = NoErr
    /\ passCount = 1
    /\ inflight = 1

\* SyncARecords is called again with the same targets
SyncAgain ==
    /\ passPc = "end"
    /\ passCount < MaxPasses
    /\ passCount' = passCount + 1
    /\ passPc' = "list"
    /\ lastCalls' = calls
    /\ calls' = << >>
    /\ passErr' = NoErr
    /\ currentRecords' = << >>
    /\ UNCHANGED <<loopVars, envVars, records, nextID, allocList, nodeMap, lookups, nodes, ips,
                   delQueue, createQueue, inflight>>

NextSync == SyncList \/ SyncDelete \/ SyncCreate \/ SyncReturn \/ SyncAgain

SpecSync == InitSync /\ [][NextSync]_vars

(***************************************************************************)
(* SpecClient: UpdateARecord, the exported method of the provider client   *)
(* that SyncARecords and Run never call, applied to every record list.     *)
(***************************************************************************)
\* cloudflare.go:85-102: UpdateARecord(ctx, recordID, target); the provider
\* refuses an id it does not know
ClientUpdate ==
    /\ pc = "none"
    /\ passPc = "idle"
    /\ \E recordID \in {RecID(i) : i \in 1..MaxRecords}, target \in Addrs, ok \in ProviderOutcomes :
          /\ ok => \E i \in DOMAIN records : records[i].ID = recordID
          /\ calls' = <<Call("update", recordID, target, ok)>>
          /\ records' = IF ok THEN UpdateARecord(records, recordID, target) ELSE records
    /\ UNCHANGED <<loopVars, envVars, nextID, passPc, allocList, nodeMap, lookups, nodes, ips,
                   currentRecords, delQueue, createQueue, lastCalls, passErr, passCount,
                   inflight>>

InitClient ==
    /\ InitDetached
    /\ allocations = << >>
    /\ nodeInfo = [n \in NodeIds |-> [Status |-> "ready", PublicIPAddress |-> ""]]
    /\ records \in RecordLists
    /\ nextID = Len(records) + 1
    /\ passPc = "idle"
    /\ allocList = << >>
    /\ nodeMap = EmptyMap
    /\ lookups = << >>
    /\ nodes = << >>
    /\ ips = << >>
    /\ currentRecords = << >>
    /\ delQueue = << >>
    /\ createQueue = << >>
    /\ calls = << >>
    /\ lastCalls = << >>
    /\ passErr = NoErr
    /\ passCount = 0
    /\ inflight = 0

NextClient == ClientUpdate

SpecClient == InitClient /\ [][NextClient]_vars

(***************************************************************************)
(* SpecNodes: GetTraefikNodes and the address extraction of syncDNSRecords *)
(* on every allocation list and every node table.                          *)
(***************************************************************************)
InitPassLocals ==
    /\ passPc = "allocs"
    /\ allocList = << >>
    /\ nodeMap = EmptyMap
    /\ lookups = << >>
    /\ nodes = << >>
    /\ ips = << >>
    /\ currentRecords = << >>
    /\ delQueue = << >>
    /\ createQueue = << >>
    /\ calls = << >>
    /\ lastCalls = << >>
    /\ passErr = NoErr
    /\ passCount = 1
    /\ inflight = 1

InitNodes ==
    /\ InitDetached
    /\ allocations \in AllocLists
    /\ nodeInfo \in [NodeIds -> NodeRecords]
    /\ records = << >>
    /\ nextID = 1
    /\ InitPassLocals

NextNodes == GetAllocations \/ NodeLoop \/ NodesReturn \/ ExtractStep

SpecNodes == InitNodes /\ [][NextNodes]_vars

(***************************************************************************)
(* main.go: syncDNSRecords entry and exit, Run, and the watcher goroutine. *)
(***************************************************************************)
AcceptedTypes == {"AllocationUpdated", "NodeUpdated", "JobRegistered", "JobDeregistered"}
\* the event types the modelled stream delivers
StreamTypes == {"AllocationUpdated", "SomeOtherEvent"}
ErrCanceled == "context canceled"
\* fmt.Errorf("failed to start event stream: %w", err) around a transport
\* error and around the error of a cancelled context
ErrStream == "failed to start event stream: connection refused"
ErrStreamCanceled == "failed to start event stream: context canceled"
\* eventWrapper.Err of an error item of the stream
ErrStreamItem == "event stream error"
\* main.go:115: the results of Run after which main logs "Controller stopped"
IsNormalStop(err) == err = NoErr \/ err = ErrCanceled

\* time.Time: the zero Time (January 1, year 1) is no time.Unix(0, n);
\* nanos are the nanoseconds since the Unix epoch
ZeroTime == [zero |-> TRUE, nanos |-> 0]
TimeUnixNanos(n) == [zero |-> FALSE, nanos |-> n]
IsZero(t) == t.zero

\* client.go:156-165: payload[key].(string), "" when the key is absent or the
\* value is no string
PayloadString(payload, value) ==
    IF ~payload.isNil /\ value.present /\ value.isString THEN value.str ELSE ""

\* the internal event is never nil for an accepted type; Nil is the nil pointer
Nil == [Type |-> "", Timestamp |-> ZeroTime, NodeID |-> "", JobID |-> "",
        Details |-> [isNil |-> TRUE, raw |-> [Type |-> "", Index |-> 0, Payload |-> NilPayload]]]

\* faulty variant of processEvent: every event type is passed on
processEventAnyType(event) ==
    [Type |-> event.Type,
     Timestamp |-> TimeUnixNanos(event.Index),
     NodeID |-> PayloadString(event.Payload, event.Payload.NodeID),
     JobID |-> PayloadString(event.Payload, event.Payload.JobID),
     Details |-> [isNil |-> FALSE, raw |-> event]]

\* faulty variant of processEvent: a value that is no string is printed
processEventPrinted(event) ==
    IF event.Type \in AcceptedTypes
    THEN [Type |-> event.Type,
          Timestamp |-> TimeUnixNanos(event.Index),
          NodeID |-> IF event.Payload.isNil THEN "" ELSE event.Payload.NodeID.str,
          JobID |-> IF event.Payload.isNil THEN "" ELSE event.Payload.JobID.str,
          Details |-> [isNil |-> FALSE, raw |-> event]]
    ELSE Nil

\* faulty variant of processEvent: the timestamp is set from a non-zero index only
processEventNoStamp(event) ==
    IF event.Type \in AcceptedTypes
    THEN [Type |-> event.Type,
          Timestamp |-> IF event.Index = 0 THEN ZeroTime ELSE TimeUnixNanos(event.Index),
          NodeID |-> PayloadString(event.Payload, event.Payload.NodeID),
          JobID |-> PayloadString(event.Payload, event.Payload.JobID),
          Details |-> [isNil |-> FALSE, raw |-> event]]
    ELSE Nil

\* client.go:143-171: the internal event of a raw event, or Nil
processEvent(event) ==
    IF event.Type \in AcceptedTypes
    THEN [Type |-> event.Type,
          Timestamp |-> TimeUnixNanos(event.Index),
          NodeID |-> PayloadString(event.Payload, event.Payload.NodeID),
          JobID |-> PayloadString(event.Payload, event.Payload.JobID),
          Details |-> [isNil |-> FALSE, raw |-> event]]
    ELSE Nil

\* faulty variant of recordMetrics: the timestamp is written by every pass
recordMetricsAlwaysStamp(m, err, dnsRecords, traefikNodes) ==
    IF m.isNil THEN m
    ELSE [isNil |-> FALSE,
          SyncTotal |-> Inc(m.SyncTotal),
          SyncErrors |-> IF err # NoErr THEN Inc(m.SyncErrors) ELSE m.SyncErrors,
          DNSRecordsTotal |-> dnsRecords,
          TraefikNodes |-> traefikNodes,
          LastSyncSet |-> TRUE]

\* metrics.go:169-186: the closure RecordSyncStart returns
recordMetrics(m, err, dnsRecords, traefikNodes) ==
    IF m.isNil THEN m
    ELSE [isNil |-> FALSE,
          SyncTotal |-> Inc(m.SyncTotal),
          SyncErrors |-> IF err # NoErr THEN Inc(m.SyncErrors) ELSE m.SyncErrors,
          DNSRecordsTotal |-> dnsRecords,
          TraefikNodes |-> traefikNodes,
          LastSyncSet |-> IF err = NoErr THEN TRUE ELSE m.LastSyncSet]

\* main.go:185-192: syncDNSRecords is entered
BeginPass ==
    /\ passPc' = "allocs"
    /\ allocList' = << >>
    /\ nodeMap' = EmptyMap
    /\ lookups' = << >>
    /\ nodes' = << >>
    /\ ips' = << >>
    /\ currentRecords' = << >>
    /\ delQueue' = << >>
    /\ createQueue' = << >>
    /\ calls' = << >>
    /\ passErr' = NoErr
    /\ passCount' = Inc(passCount)
    /\ inflight' = inflight + 1
    /\ UNCHANGED lastCalls

\* faulty variant of AfterSync: a failed pass ends Run
AfterSyncFatal ==
    CASE pc = "initSync" ->
             /\ pc' = IF passErr = NoErr THEN "watch" ELSE "stopped"
             /\ ready' = IF passErr = NoErr THEN TRUE ELSE ready
      [] pc \in {"eventSync", "tickSync"} ->
             /\ pc' = IF passErr = NoErr THEN "select" ELSE "stopped"
             /\ UNCHANGED ready
      [] OTHER -> UNCHANGED <<pc, ready>>

\* what Run does with the result of syncDNSRecords (main.go:132-137, 172-174, 178-180)
AfterSync ==
    CASE pc = "initSync" ->
             /\ pc' = "watch"
             /\ ready' = IF passErr = NoErr THEN TRUE ELSE ready
      [] pc \in {"eventSync", "tickSync"} ->
             /\ pc' = "select"
             /\ UNCHANGED ready
      [] OTHER -> UNCHANGED <<pc, ready>>

\* main.go:193-196, 210-219: the end-of-pass hook and the return to Run
PassEnd ==
    /\ passPc = "end"
    /\ passPc' = "idle"
    /\ inflight' = inflight - 1
    /\ metrics' = IF passErr = ErrAllocations
                  THEN recordMetrics(metrics, passErr, 0, 0)
                  ELSE recordMetrics(metrics, passErr, Len(ips), Len(nodes))
    /\ AfterSync
    /\ allocList' = << >>
    /\ nodeMap' = EmptyMap
    /\ lookups' = << >>
    /\ nodes' = << >>
    /\ ips' = << >>
    /\ currentRecords' = << >>
    /\ delQueue' = << >>
    /\ createQueue' = << >>
    /\ calls' = << >>
    /\ passErr' = NoErr
    /\ UNCHANGED <<envVars, records, nextID, lastCalls, passCount,
                   runResult, ctxDone, tickerArmed, tickReady, eventChan, eventErrorChan,
                   wpc, werr, pending, streamed, sleepLeft, inWait>>

\* faulty variant of RunStart: no initial sync
RunStartNoSync ==
    /\ pc = "start"
    /\ pc' = "watch"
    /\ UNCHANGED <<envVars, records, nextID, passPc, allocList, nodeMap, lookups, nodes,
                   ips, currentRecords, delQueue, createQueue, calls, lastCalls, passErr,
                   passCount, inflight, runResult, ctxDone, tickerArmed, tickReady,
                   eventChan, eventErrorChan, wpc, werr, pending, streamed, ready, metrics,
                   sleepLeft, inWait>>

\* main.go:123-132: Run starts with the initial sync
RunStart ==
    /\ pc = "start"
    /\ pc' = "initSync"
    /\ BeginPass
    /\ UNCHANGED <<envVars, records, nextID, runResult, ctxDone, tickerArmed, tickReady,
                   eventChan, eventErrorChan, wpc, werr, pending, streamed, ready, metrics,
                   sleepLeft, inWait>>

\* main.go:139-150: the channels are made and the watcher goroutine is started
StartWatcher ==
    /\ pc = "watch"
    /\ eventChan' = << >>
    /\ eventErrorChan' = << >>
    /\ wpc' = "start"
    /\ pc' = "ticker"
    /\ UNCHANGED <<envVars, records, nextID, passPc, allocList, nodeMap, lookups, nodes,
                   ips, currentRecords, delQueue, createQueue, calls, lastCalls, passErr,
                   passCount, inflight, runResult, ctxDone, tickerArmed, tickReady,
                   werr, pending, streamed, ready, metrics, sleepLeft, inWait>>

\* main.go:152-154: the periodic ticker is created
ArmTicker ==
    /\ pc = "ticker"
    /\ tickerArmed' = TRUE
    /\ pc' = "select"
    /\ UNCHANGED <<envVars, records, nextID, passPc, allocList, nodeMap, lookups, nodes,
                   ips, currentRecords, delQueue, createQueue, calls, lastCalls, passErr,
                   passCount, inflight, runResult, ctxDone, tickReady, eventChan,
                   eventErrorChan, wpc, werr, pending, streamed, ready, metrics, sleepLeft, inWait>>

\* main.go:159-160: select takes ctx.Done()
LoopCancelled ==
    /\ pc = "select"
    /\ ctxDone
    /\ runResult' = ErrCanceled
    /\ pc' = "stopped"
    /\ tickerArmed' = FALSE
    /\ UNCHANGED <<envVars, records, nextID, passPc, allocList, nodeMap, lookups, nodes,
                   ips, currentRecords, delQueue, createQueue, calls, lastCalls, passErr,
                   passCount, inflight, ctxDone, tickReady, eventChan, eventErrorChan,
                   wpc, werr, pending, streamed, ready, metrics, sleepLeft, inWait>>

\* faulty variant of LoopWatchError: the loop shuts down and returns nil
LoopWatchErrorNil ==
    /\ pc = "select"
    /\ eventErrorChan # << >>
    /\ runResult' = NoErr
    /\ eventErrorChan' = Tail(eventErrorChan)
    /\ pc' = "stopped"
    /\ tickerArmed' = FALSE
    /\ UNCHANGED <<envVars, records, nextID, passPc, allocList, nodeMap, lookups, nodes,
                   ips, currentRecords, delQueue, createQueue, calls, lastCalls, passErr,
                   passCount, inflight, ctxDone, tickReady, eventChan, wpc, werr, pending,
                   streamed, ready, metrics, sleepLeft, inWait>>

\* main.go:163-165: select takes the watcher's error
LoopWatchError ==
    /\ pc = "select"
    /\ eventErrorChan # << >>
    /\ runResult' = Head(eventErrorChan)
    /\ eventErrorChan' = Tail(eventErrorChan)
    /\ pc' = "stopped"
    /\ tickerArmed' = FALSE
    /\ UNCHANGED <<envVars, records, nextID, passPc, allocList, nodeMap, lookups, nodes,
                   ips, currentRecords, delQueue, createQueue, calls, lastCalls, passErr,
                   passCount, inflight, ctxDone, tickReady, eventChan, wpc, werr, pending,
                   streamed, ready, metrics, sleepLeft, inWait>>

\* main.go:168-171: select takes an event and the debounce sleep begins
LoopEvent ==
    /\ pc = "select"
    /\ eventChan # << >>
    /\ eventChan' = Tail(eventChan)
    /\ inWait' = Tail(inWait)
    /\ sleepLeft' = DebounceSeconds
    /\ pc' = "debounce"
    /\ UNCHANGED <<envVars, records, nextID, passPc, allocList, nodeMap, lookups, nodes,
                   ips, currentRecords, delQueue, createQueue, calls, lastCalls, passErr,
                   passCount, inflight, runResult, ctxDone, tickerArmed, tickReady,
                   eventErrorChan, wpc, werr, pending, streamed, ready, metrics>>

\* faulty variant of SleepStep: a cancelled context ends the wait and the
\* loop goes back to its select
SleepStepInterruptible ==
    /\ pc = "debounce"
    /\ sleepLeft > 0
    /\ sleepLeft' = IF ctxDone THEN 0 ELSE sleepLeft - 1
    /\ pc' = IF ctxDone THEN "select" ELSE pc
    /\ UNCHANGED <<envVars, records, nextID, passPc, allocList, nodeMap, lookups, nodes,
                   ips, currentRecords, delQueue, createQueue, calls, lastCalls, passErr,
                   passCount, inflight, runResult, ctxDone, tickerArmed, tickReady,
                   eventChan, eventErrorChan, wpc, werr, pending, streamed, ready, metrics,
                   inWait>>

\* main.go:171: a second of the debounce sleep passes
SleepStep ==
    /\ pc = "debounce"
    /\ sleepLeft > 0
    /\ sleepLeft' = sleepLeft - 1
    /\ UNCHANGED <<envVars, records, nextID, passPc, allocList, nodeMap, lookups, nodes,
                   ips, currentRecords, delQueue, createQueue, calls, lastCalls, passErr,
                   passCount, inflight, pc, runResult, ctxDone, tickerArmed, tickReady,
                   eventChan, eventErrorChan, wpc, werr, pending, streamed, ready, metrics,
                   inWait>>

\* faulty variant of DebounceDone: the sync is called before the sleep has ended
DebounceDoneEarly ==
    /\ pc = "debounce"
    /\ sleepLeft' = 0
    /\ pc' = "eventSync"
    /\ BeginPass
    /\ UNCHANGED <<envVars, records, nextID, runResult, ctxDone, tickerArmed, tickReady,
                   eventChan, eventErrorChan, wpc, werr, pending, streamed, ready, metrics,
                   inWait>>

\* main.go:171-172: the sleep ends and the sync after the event is called
DebounceDone ==
    /\ pc = "debounce"
    /\ sleepLeft = 0
    /\ pc' = "eventSync"
    /\ BeginPass
    /\ UNCHANGED <<envVars, records, nextID, runResult, ctxDone, tickerArmed, tickReady,
                   eventChan, eventErrorChan, wpc, werr, pending, streamed, ready, metrics,
                   sleepLeft, inWait>>

\* faulty variant of LoopTick: the sync is started and the loop goes on selecting
LoopTickAsync ==
    /\ pc = "select"
    /\ tickReady
    /\ tickReady' = FALSE
    /\ pc' = "select"
    /\ BeginPass
    /\ UNCHANGED <<envVars, records, nextID, runResult, ctxDone, tickerArmed, eventChan,
                   eventErrorChan, wpc, werr, pending, streamed, ready, metrics, sleepLeft, inWait>>

\* main.go:176-178: select takes a tick and the periodic sync is called
LoopTick ==
    /\ pc = "select"
    /\ tickReady
    /\ tickReady' = FALSE
    /\ pc' = "tickSync"
    /\ BeginPass
    /\ UNCHANGED <<envVars, records, nextID, runResult, ctxDone, tickerArmed, eventChan,
                   eventErrorChan, wpc, werr, pending, streamed, ready, metrics, sleepLeft, inWait>>

\* main.go:108-112: a shutdown signal cancels the context
Cancel ==
    /\ ~ctxDone
    /\ ctxDone' = TRUE
    /\ UNCHANGED <<envVars, records, nextID, passPc, allocList, nodeMap, lookups, nodes,
                   ips, currentRecords, delQueue, createQueue, calls, lastCalls, passErr,
                   passCount, inflight, pc, runResult, tickerArmed, tickReady, eventChan,
                   eventErrorChan, wpc, werr, pending, streamed, ready, metrics, sleepLeft, inWait>>

\* faulty variant of Tick: a timer that fires once
TickOnce ==
    /\ tickerArmed
    /\ ~tickReady
    /\ tickReady' = TRUE
    /\ tickerArmed' = FALSE
    /\ UNCHANGED <<envVars, records, nextID, passPc, allocList, nodeMap, lookups, nodes,
                   ips, currentRecords, delQueue, createQueue, calls, lastCalls, passErr,
                   passCount, inflight, pc, runResult, ctxDone, eventChan,
                   eventErrorChan, wpc, werr, pending, streamed, ready, metrics,
                   sleepLeft, inWait>>

\* main.go:153: the ticker puts a tick into ticker.C, which holds one
Tick ==
    /\ tickerArmed
    /\ ~tickReady
    /\ tickReady' = TRUE
    /\ UNCHANGED <<envVars, records, nextID, passPc, allocList, nodeMap, lookups, nodes,
                   ips, currentRecords, delQueue, createQueue, calls, lastCalls, passErr,
                   passCount, inflight, pc, runResult, ctxDone, tickerArmed, eventChan,
                   eventErrorChan, wpc, werr, pending, streamed, ready, metrics, sleepLeft, inWait>>

watcherFrame == <<envVars, records, nextID, passPc, allocList, nodeMap, lookups, nodes,
                  ips, currentRecords, delQueue, createQueue, calls, lastCalls, passErr,
                  passCount, inflight, pc, runResult, ctxDone, tickerArmed, tickReady,
                  ready, metrics, sleepLeft>>

\* client.go:94-115: WatchEvents opens the stream; the request carries the
\* context and fails once that is cancelled
WatchStart ==
    /\ wpc = "start"
    /\ \/ /\ ~ctxDone
          /\ wpc' = "recv"
          /\ werr' = werr
       \/ /\ ~ctxDone
          /\ wpc' = "report"
          /\ werr' = ErrStream
       \/ /\ ctxDone
          /\ wpc' = "report"
          /\ werr' = ErrStreamCanceled
    /\ UNCHANGED <<watcherFrame, inWait, eventChan, eventErrorChan, pending, streamed>>

\* client.go:120-121: the watcher's select takes ctx.Done()
WatchCancelled ==
    /\ wpc = "recv"
    /\ ctxDone
    /\ wpc' = "report"
    /\ werr' = ErrCanceled
    /\ UNCHANGED <<watcherFrame, inWait, eventChan, eventErrorChan, pending, streamed>>

\* client.go:122-123: the stream delivers an error item
WatchStreamError ==
    /\ wpc = "recv"
    /\ wpc' = "streamErr"
    /\ UNCHANGED <<watcherFrame, inWait, werr, eventChan, eventErrorChan, pending, streamed>>

\* client.go:124-125: the error item is logged and the loop continues
WatchContinue ==
    /\ wpc = "streamErr"
    /\ wpc' = "recv"
    /\ UNCHANGED <<watcherFrame, inWait, werr, eventChan, eventErrorChan, pending, streamed>>

\* client.go:122-129: the stream delivers a wrapper of events
WatchRecv ==
    /\ wpc = "recv"
    /\ streamed < MaxStreamEvents
    /\ \E n \in 1..(MaxStreamEvents - streamed) :
         \E types \in [1..n -> StreamTypes] :
            /\ pending' = [i \in 1..n |-> [Type |-> types[i], Index |-> streamed + i,
                                           Payload |-> NilPayload]]
            /\ streamed' = streamed + n
    /\ wpc' = "send"
    /\ UNCHANGED <<watcherFrame, inWait, werr, eventChan, eventErrorChan>>

\* faulty variant of WatchSend: a plain send, without the ctx.Done() case
WatchSendNoCancel ==
    /\ wpc = "send"
    /\ pending # << >>
    /\ LET processedEvent == processEvent(Head(pending)) IN
         \/ /\ processedEvent = Nil
            /\ pending' = Tail(pending)
            /\ UNCHANGED <<eventChan, inWait, wpc, werr>>
         \/ /\ processedEvent # Nil
            /\ Len(eventChan) < EventChanCap
            /\ eventChan' = Append(eventChan, processedEvent)
            /\ inWait' = Append(inWait, pc = "debounce")
            /\ pending' = Tail(pending)
            /\ UNCHANGED <<wpc, werr>>
    /\ UNCHANGED <<watcherFrame, eventErrorChan, streamed>>

\* faulty variant of WatchSend: an event that finds the queue full is dropped
WatchSendDrop ==
    /\ wpc = "send"
    /\ pending # << >>
    /\ LET processedEvent == processEvent(Head(pending)) IN
         \/ /\ processedEvent = Nil
            /\ pending' = Tail(pending)
            /\ UNCHANGED <<eventChan, inWait, wpc, werr>>
         \/ /\ processedEvent # Nil
            /\ Len(eventChan) < EventChanCap
            /\ eventChan' = Append(eventChan, processedEvent)
            /\ inWait' = Append(inWait, pc = "debounce")
            /\ pending' = Tail(pending)
            /\ UNCHANGED <<wpc, werr>>
         \/ /\ processedEvent # Nil
            /\ Len(eventChan) >= EventChanCap
            /\ pending' = Tail(pending)
            /\ UNCHANGED <<eventChan, inWait, wpc, werr>>
         \/ /\ processedEvent # Nil
            /\ ctxDone
            /\ wpc' = "report"
            /\ werr' = ErrCanceled
            /\ pending' = << >>
            /\ UNCHANGED <<eventChan, inWait>>
    /\ UNCHANGED <<watcherFrame, eventErrorChan, streamed>>

\* client.go:129-137: one event of the wrapper is processed and forwarded
WatchSend ==
    /\ wpc = "send"
    /\ pending # << >>
    /\ LET processedEvent == processEvent(Head(pending)) IN
         \/ /\ processedEvent = Nil
            /\ pending' = Tail(pending)
            /\ UNCHANGED <<eventChan, inWait, wpc, werr>>
         \/ /\ processedEvent # Nil
            /\ Len(eventChan) < EventChanCap
            /\ eventChan' = Append(eventChan, processedEvent)
            /\ inWait' = Append(inWait, pc = "debounce")
            /\ pending' = Tail(pending)
            /\ UNCHANGED <<wpc, werr>>
         \/ /\ processedEvent # Nil
            /\ ctxDone
            /\ wpc' = "report"
            /\ werr' = ErrCanceled
            /\ pending' = << >>
            /\ UNCHANGED <<eventChan, inWait>>
    /\ UNCHANGED <<watcherFrame, eventErrorChan, streamed>>

\* client.go:129, 137-138: the wrapper is exhausted, back to the select
WatchNext ==
    /\ wpc = "send"
    /\ pending = << >>
    /\ wpc' = "recv"
    /\ UNCHANGED <<watcherFrame, inWait, werr, eventChan, eventErrorChan, pending, streamed>>

\* main.go:143-149: the goroutine reports the error of WatchEvents or gives up
WatchReport ==
    /\ wpc = "report"
    /\ \/ /\ Len(eventErrorChan) < ErrorChanCap
          /\ eventErrorChan' = Append(eventErrorChan, werr)
       \/ /\ ctxDone
          /\ UNCHANGED eventErrorChan
    /\ wpc' = "done"
    /\ UNCHANGED <<watcherFrame, inWait, werr, eventChan, pending, streamed>>

(***************************************************************************)
(* SpecEvent: the adapter's loop over a wrapper (client.go:129-137) on      *)
(* every raw event.                                                        *)
(***************************************************************************)
InitEvent ==
    /\ allocations = << >>
    /\ nodeInfo = [n \in NodeIds |-> [Status |-> "ready", PublicIPAddress |-> ""]]
    /\ records = << >>
    /\ nextID = 1
    /\ passPc = "idle"
    /\ allocList = << >>
    /\ nodeMap = EmptyMap
    /\ lookups = << >>
    /\ nodes = << >>
    /\ ips = << >>
    /\ currentRecords = << >>
    /\ delQueue = << >>
    /\ createQueue = << >>
    /\ calls = << >>
    /\ lastCalls = << >>
    /\ passErr = NoErr
    /\ passCount = 0
    /\ inflight = 0
    /\ pc = "none"
    /\ runResult = NoErr
    /\ ctxDone = FALSE
    /\ tickerArmed = FALSE
    /\ tickReady = FALSE
    /\ eventChan = << >>
    /\ eventErrorChan = << >>
    /\ wpc = "send"
    /\ werr = NoErr
    /\ pending \in {<<e>> : e \in RawEvents}
    /\ streamed = 1
    /\ ready = FALSE
    /\ metrics = InitMetrics
    /\ sleepLeft = 0
    /\ inWait = << >>
    /\ InitConfigured

NextEvent == WatchSend \/ WatchNext \/ Cancel

SpecEvent == InitEvent /\ [][NextEvent]_vars

(***************************************************************************)
(* SpecQueue: the adapter against a loop that is behind. The loop is at    *)
(* its select after a pass during which the queue has filled up to one    *)
(* free place; the cluster runs no allocation and the hostname has no      *)
(* record, so a pass lists, finds nothing to do and returns. The          *)
(* controller has run MaxPasses passes or more, failed ones among them,    *)
(* and the stream has two more events to deliver.                          *)
(***************************************************************************)
\* an event queued before the window: processEvent of a raw event of index 0
QueuedBefore ==
    processEvent([Type |-> "AllocationUpdated", Index |-> 0, Payload |-> NilPayload])

InitQueue ==
    /\ allocations = << >>
    /\ nodeInfo = [n \in NodeIds |-> [Status |-> "ready", PublicIPAddress |-> AddrPool[1]]]
    /\ records = << >>
    /\ nextID = 1
    /\ passPc = "idle"
    /\ allocList = << >>
    /\ nodeMap = EmptyMap
    /\ lookups = << >>
    /\ nodes = << >>
    /\ ips = << >>
    /\ currentRecords = << >>
    /\ delQueue = << >>
    /\ createQueue = << >>
    /\ calls = << >>
    /\ lastCalls = << >>
    /\ passErr = NoErr
    /\ passCount = MaxPasses
    /\ inflight = 0
    /\ pc = "select"
    /\ runResult = NoErr
    /\ ctxDone = FALSE
    /\ tickerArmed = TRUE
    /\ tickReady = FALSE
    /\ eventChan = [i \in 1..(EventChanCap - 1) |-> QueuedBefore]
    /\ inWait = [i \in 1..(EventChanCap - 1) |-> FALSE]
    /\ eventErrorChan = << >>
    /\ wpc = "recv"
    /\ werr = NoErr
    /\ pending = << >>
    /\ streamed = MaxStreamEvents - 2
    /\ ready = TRUE
    /\ metrics = [isNil |-> FALSE, SyncTotal |-> MaxPasses, SyncErrors |-> MaxPasses,
                  DNSRecordsTotal |-> 0, TraefikNodes |-> 0, LastSyncSet |-> TRUE]
    /\ sleepLeft = 0
    /\ InitConfigured

\* the steps that can be taken from there: Run and the watcher are past their
\* start, and a pass looks up no node and calls no mutation
NextQueue ==
    \/ LoopCancelled \/ LoopWatchError \/ LoopEvent \/ SleepStep \/ DebounceDone \/ LoopTick
    \/ GetAllocations \/ NodesReturn \/ ExtractStep \/ SyncList \/ SyncReturn \/ PassEnd
    \/ Cancel \/ Tick
    \/ WatchCancelled \/ WatchStreamError \/ WatchContinue \/ WatchRecv \/ WatchSend
    \/ WatchNext \/ WatchReport

SpecQueue == InitQueue /\ [][NextQueue]_vars

(***************************************************************************)
(* SpecConfig: main from its start to the first pass of Run, on every      *)
(* environment.                                                            *)
(***************************************************************************)
\* main.go:55-59: LoadConfig is called; log.Fatal ends the process on an error
MainLoadConfig ==
    /\ pc = "main"
    /\ config' = LoadConfig(environ).cfg
    /\ loadErr' = LoadConfig(environ).err
    /\ pc' = IF LoadConfig(environ).err # NoErr THEN "fatal" ELSE "clients"
    /\ UNCHANGED <<allocations, nodeInfo, environ, records, nextID, passPc, allocList, nodeMap,
                   lookups, nodes, ips, currentRecords, delQueue, createQueue, calls, lastCalls,
                   passErr, passCount, inflight, runResult, ctxDone, tickerArmed, tickReady,
                   eventChan, eventErrorChan, wpc, werr, pending, streamed, ready, metrics,
                   sleepLeft, inWait>>

\* main.go:61-114: making a client fails and log.Fatal ends the process, or
\* the clients are made, metrics.NewServer sets AppMetrics once (metrics.go:
\* 45-80) and starts with ready false, and Run is called
MainStart ==
    /\ pc = "clients"
    /\ \/ /\ pc' = "fatal"
          /\ UNCHANGED <<ready, metrics>>
       \/ /\ pc' = "start"
          /\ metrics' = IF metrics.isNil THEN InitMetrics ELSE metrics
          /\ ready' = FALSE
    /\ UNCHANGED <<envVars, records, nextID, passPc, allocList, nodeMap, lookups, nodes,
                   ips, currentRecords, delQueue, createQueue, calls, lastCalls, passErr,
                   passCount, inflight, runResult, ctxDone, tickerArmed, tickReady,
                   eventChan, eventErrorChan, wpc, werr, pending, streamed,
                   sleepLeft, inWait>>

InitConfig ==
    /\ environ \in Environments
    /\ config = NilConfig
    /\ loadErr = NoErr
    /\ allocations = <<[ID |-> AllocPool[1], NodeID |-> NodePool[1], ClientStatus |-> "running"]>>
    /\ nodeInfo = [n \in NodeIds |-> [Status |-> "ready", PublicIPAddress |-> AddrPool[1]]]
    /\ records = << >>
    /\ nextID = 1
    /\ passPc = "idle"
    /\ allocList = << >>
    /\ nodeMap = EmptyMap
    /\ lookups = << >>
    /\ nodes = << >>
    /\ ips = << >>
    /\ currentRecords = << >>
    /\ delQueue = << >>
    /\ createQueue = << >>
    /\ calls = << >>
    /\ lastCalls = << >>
    /\ passErr = NoErr
    /\ passCount = 0
    /\ inflight = 0
    /\ pc = "main"
    /\ runResult = NoErr
    /\ ctxDone = FALSE
    /\ tickerArmed = FALSE
    /\ tickReady = FALSE
    /\ eventChan = << >>
    /\ eventErrorChan = << >>
    /\ wpc = "none"
    /\ werr = NoErr
    /\ pending = << >>
    /\ streamed = 0
    /\ ready = FALSE
    /\ metrics = NilMetrics
    /\ sleepLeft = 0
    /\ inWait = << >>

NextConfig == MainLoadConfig \/ MainStart \/ RunStart

SpecConfig == InitConfig /\ [][NextConfig]_vars

(***************************************************************************)
(* SpecHook: syncDNSRecords called MaxPasses times in a row on the cluster *)
(* of Spec, outside Run, with and without a NewServer call before it.      *)
(***************************************************************************)
InitHook ==
    /\ allocations = <<[ID |-> AllocPool[1], NodeID |-> NodePool[1], ClientStatus |-> "running"]>>
    /\ nodeInfo = [n \in NodeIds |-> [Status |-> "ready", PublicIPAddress |-> AddrPool[1]]]
    /\ records = <<[ID |-> RecID(1), Content |-> AddrPool[2]]>>
    /\ nextID = Len(records) + 1
    /\ InitPassLocals
    /\ pc = "none"
    /\ runResult = NoErr
    /\ ctxDone = FALSE
    /\ tickerArmed = FALSE
    /\ tickReady = FALSE
    /\ eventChan = << >>
    /\ eventErrorChan = << >>
    /\ wpc = "none"
    /\ werr = NoErr
    /\ pending = << >>
    /\ streamed = 0
    /\ ready = FALSE
    /\ metrics \in {InitMetrics, NilMetrics}
    /\ sleepLeft = 0
    /\ inWait = << >>
    /\ InitConfigured

\* syncDNSRecords is called again
PassAgain ==
    /\ passPc = "idle"
    /\ passCount < MaxPasses
    /\ BeginPass
    /\ UNCHANGED <<loopVars, envVars, records, nextID>>

NextHook ==
    \/ GetAllocations \/ NodeLoop \/ NodesReturn \/ ExtractStep
    \/ SyncList \/ SyncDelete \/ SyncCreate \/ SyncReturn \/ PassEnd \/ PassAgain

SpecHook == InitHook /\ [][NextHook]_vars

(***************************************************************************)
(* SpecPass: one whole pass of syncDNSRecords, resolver and DNS sync, on   *)
(* every orchestrator state and every record list.                         *)
(***************************************************************************)
InitPass ==
    /\ InitDetached
    /\ allocations \in AllocLists
    /\ nodeInfo \in [NodeIds -> NodeRecords]
    /\ records \in RecordLists
    /\ nextID = Len(records) + 1
    /\ InitPassLocals

NextPass ==
    \/ GetAllocations \/ NodeLoop \/ NodesReturn \/ ExtractStep
    \/ SyncList \/ SyncDelete \/ SyncCreate \/ SyncReturn \/ PassEnd

SpecPass == InitPass /\ [][NextPass]_vars

(***************************************************************************)
(* SpecOrigin: one pass on a cluster of two allocations on two nodes, in   *)
(* every status and with every node table, the hostname having a record    *)
(* of an address a node may have and a record of an address no node has.   *)
(***************************************************************************)
InitOrigin ==
    /\ InitDetached
    /\ allocations \in {[i \in 1..2 |-> [ID |-> AllocPool[i], NodeID |-> NodePool[i],
                                         ClientStatus |-> st[i]]] :
                            st \in [1..2 -> AllocStatuses]}
    /\ nodeInfo \in [NodeIds -> NodeRecords]
    /\ records = <<[ID |-> RecID(1), Content |-> AddrPool[1]],
                   [ID |-> RecID(2), Content |-> AddrPool[NumAddrs]]>>
    /\ nextID = Len(records) + 1
    /\ InitPassLocals

SpecOrigin == InitOrigin /\ [][NextPass]_vars

(***************************************************************************)
(* Spec: the controller, from the call of Run.                             *)
(***************************************************************************)
Init ==
    /\ allocations = <<[ID |-> AllocPool[1], NodeID |-> NodePool[1], ClientStatus |-> "running"]>>
    /\ nodeInfo = [n \in NodeIds |-> [Status |-> "ready", PublicIPAddress |-> AddrPool[1]]]
    /\ records = <<[ID |-> RecID(1), Content |-> AddrPool[2]]>>
    /\ nextID = Len(records) + 1
    /\ passPc = "idle"
    /\ allocList = << >>
    /\ nodeMap = EmptyMap
    /\ lookups = << >>
    /\ nodes = << >>
    /\ ips = << >>
    /\ currentRecords = << >>
    /\ delQueue = << >>
    /\ createQueue = << >>
    /\ calls = << >>
    /\ lastCalls = << >>
    /\ passErr = NoErr
    /\ passCount = 0
    /\ inflight = 0
    /\ pc = "start"
    /\ runResult = NoErr
    /\ ctxDone = FALSE
    /\ tickerArmed = FALSE
    /\ tickReady = FALSE
    /\ eventChan = << >>
    /\ eventErrorChan = << >>
    /\ wpc = "none"
    /\ werr = NoErr
    /\ pending = << >>
    /\ streamed = 0
    /\ ready = FALSE
    /\ metrics = InitMetrics
    /\ sleepLeft = 0
    /\ inWait = << >>
    /\ InitConfigured

Next ==
    \/ RunStart \/ StartWatcher \/ ArmTicker
    \/ LoopCancelled \/ LoopWatchError \/ LoopEvent \/ SleepStep \/ DebounceDone \/ LoopTick
    \/ GetAllocations \/ NodeLoop \/ NodesReturn \/ ExtractStep
    \/ SyncList \/ SyncDelete \/ SyncCreate \/ SyncReturn \/ PassEnd
    \/ Cancel \/ Tick
    \/ WatchStart \/ WatchCancelled \/ WatchStreamError \/ WatchContinue \/ WatchRecv \/ WatchSend
    \/ WatchNext \/ WatchReport

Spec == Init /\ [][Next]_vars

(***************************************************************************)
(* SpecFair: the controller under fair scheduling. Every goroutine that    *)
(* can take a step takes one, the ticker keeps ticking, and a select whose *)
(* case is ready again and again takes that case at some time (Go chooses  *)
(* uniformly at random among the ready cases). The shutdown signal and     *)
(* what the stream delivers are left to the environment.                   *)
(***************************************************************************)
PassStep ==
    \/ GetAllocations \/ NodeLoop \/ NodesReturn \/ ExtractStep
    \/ SyncList \/ SyncDelete \/ SyncCreate \/ SyncReturn \/ PassEnd

Fairness ==
    /\ WF_vars(RunStart \/ StartWatcher \/ ArmTicker \/ SleepStep \/ DebounceDone \/ PassStep)
    /\ WF_vars(Tick)
    /\ SF_vars(LoopCancelled)
    /\ SF_vars(LoopWatchError)
    /\ SF_vars(LoopEvent)
    /\ SF_vars(LoopTick)
    /\ WF_vars(WatchStart \/ WatchCancelled \/ WatchContinue \/ WatchSend
                  \/ WatchNext \/ WatchReport)

\* a fresh deployment: the hostname has no record yet, and the stream of this
\* environment has one more event to deliver
InitFair ==
    /\ allocations = <<[ID |-> AllocPool[1], NodeID |-> NodePool[1], ClientStatus |-> "running"]>>
    /\ nodeInfo = [n \in NodeIds |-> [Status |-> "ready", PublicIPAddress |-> AddrPool[1]]]
    /\ records = << >>
    /\ nextID = Len(records) + 1
    /\ passPc = "idle"
    /\ allocList = << >>
    /\ nodeMap = EmptyMap
    /\ lookups = << >>
    /\ nodes = << >>
    /\ ips = << >>
    /\ currentRecords = << >>
    /\ delQueue = << >>
    /\ createQueue = << >>
    /\ calls = << >>
    /\ lastCalls = << >>
    /\ passErr = NoErr
    /\ passCount = 0
    /\ inflight = 0
    /\ pc = "start"
    /\ runResult = NoErr
    /\ ctxDone = FALSE
    /\ tickerArmed = FALSE
    /\ tickReady = FALSE
    /\ eventChan = << >>
    /\ eventErrorChan = << >>
    /\ wpc = "none"
    /\ werr = NoErr
    /\ pending = << >>
    /\ streamed = MaxStreamEvents - 1
    /\ ready = FALSE
    /\ metrics = InitMetrics
    /\ sleepLeft = 0
    /\ inWait = << >>
    /\ InitConfigured

SpecFair == InitFair /\ [][Next]_vars /\ Fairness

(***************************************************************************)
(* SpecStop: the controller under fair scheduling, from a state in which   *)
(* the loop is behind: the queue is full and the adapter is blocked with   *)
(* the last event of the stream in its hand.                               *)
(***************************************************************************)
InitFull ==
    /\ allocations = << >>
    /\ nodeInfo = [n \in NodeIds |-> [Status |-> "ready", PublicIPAddress |-> AddrPool[1]]]
    /\ records = << >>
    /\ nextID = 1
    /\ passPc = "idle"
    /\ allocList = << >>
    /\ nodeMap = EmptyMap
    /\ lookups = << >>
    /\ nodes = << >>
    /\ ips = << >>
    /\ currentRecords = << >>
    /\ delQueue = << >>
    /\ createQueue = << >>
    /\ calls = << >>
    /\ lastCalls = << >>
    /\ passErr = NoErr
    /\ passCount = MaxPasses
    /\ inflight = 0
    /\ pc = "select"
    /\ runResult = NoErr
    /\ ctxDone = FALSE
    /\ tickerArmed = TRUE
    /\ tickReady = FALSE
    /\ eventChan = [i \in 1..EventChanCap |-> QueuedBefore]
    /\ inWait = [i \in 1..EventChanCap |-> FALSE]
    /\ eventErrorChan = << >>
    /\ wpc = "send"
    /\ werr = NoErr
    /\ pending = <<[Type |-> "AllocationUpdated", Index |-> MaxStreamEvents,
                    Payload |-> NilPayload]>>
    /\ streamed = MaxStreamEvents
    /\ ready = TRUE
    /\ metrics = [isNil |-> FALSE, SyncTotal |-> MaxPasses, SyncErrors |-> MaxPasses,
                  DNSRecordsTotal |-> 0, TraefikNodes |-> 0, LastSyncSet |-> TRUE]
    /\ sleepLeft = 0
    /\ InitConfigured

\* the steps that can be taken from there: the cluster runs no Traefik and
\* the hostname has no record, so a pass looks up no node and calls no
\* mutation, Run and the watcher are past their start, and the stream
\* delivers error items only
NextStop ==
    \/ LoopCancelled \/ LoopWatchError \/ LoopEvent \/ SleepStep \/ DebounceDone \/ LoopTick
    \/ GetAllocations \/ NodesReturn \/ ExtractStep \/ SyncList \/ SyncReturn \/ PassEnd
    \/ Cancel \/ Tick
    \/ WatchCancelled \/ WatchStreamError \/ WatchContinue \/ WatchSend
    \/ WatchNext \/ WatchReport

\* the adapter's select is a select as well: while the stream keeps
\* delivering error items, ctx.Done() is ready again and again
FairnessStop ==
    /\ Fairness
    /\ SF_vars(WatchCancelled)

SpecStop == InitFull /\ [][NextStop]_vars /\ FairnessStop

(***************************************************************************)
(* SpecConverge: the control loop under fair scheduling with the stream    *)
(* silent, on the cluster of Spec and on every list of records the         *)
(* hostname may start with, records of the same content included.          *)
(***************************************************************************)
InitConverge ==
    /\ allocations = <<[ID |-> AllocPool[1], NodeID |-> NodePool[1], ClientStatus |-> "running"]>>
    /\ nodeInfo = [n \in NodeIds |-> [Status |-> "ready", PublicIPAddress |-> AddrPool[1]]]
    /\ records \in RecordLists
    /\ nextID = Len(records) + 1
    /\ passPc = "idle"
    /\ allocList = << >>
    /\ nodeMap = EmptyMap
    /\ lookups = << >>
    /\ nodes = << >>
    /\ ips = << >>
    /\ currentRecords = << >>
    /\ delQueue = << >>
    /\ createQueue = << >>
    /\ calls = << >>
    /\ lastCalls = << >>
    /\ passErr = NoErr
    /\ passCount = MaxPasses
    /\ inflight = 0
    /\ pc = "select"
    /\ runResult = NoErr
    /\ ctxDone = FALSE
    /\ tickerArmed = TRUE
    /\ tickReady = FALSE
    /\ eventChan = << >>
    /\ inWait = << >>
    /\ eventErrorChan = << >>
    /\ wpc = "recv"
    /\ werr = NoErr
    /\ pending = << >>
    /\ streamed = MaxStreamEvents
    /\ ready = TRUE
    /\ metrics = [isNil |-> FALSE, SyncTotal |-> MaxPasses, SyncErrors |-> MaxPasses,
                  DNSRecordsTotal |-> 0, TraefikNodes |-> 0, LastSyncSet |-> TRUE]
    /\ sleepLeft = 0
    /\ InitConfigured

\* the steps that can be taken from there: no event arrives, so every pass
\* is a tick pass
NextConverge ==
    \/ LoopCancelled \/ LoopWatchError \/ LoopTick
    \/ GetAllocations \/ NodeLoop \/ NodesReturn \/ ExtractStep
    \/ SyncList \/ SyncDelete \/ SyncCreate \/ SyncReturn \/ PassEnd
    \/ Cancel \/ Tick
    \/ WatchCancelled \/ WatchStreamError \/ WatchContinue \/ WatchReport

SpecConverge == InitConverge /\ [][NextConverge]_vars /\ Fairness

(***************************************************************************)
(* Vocabulary of the properties.                                           *)
(***************************************************************************)
CallIdx(cs, op) == {k \in DOMAIN cs : cs[k].op = op}
AllCallsOk(cs) == \A k \in DOMAIN cs : cs[k].ok
NoDuplicates(s) == \A i, j \in DOMAIN s : i # j => s[i] # s[j]
Contents(recs) == {recs[i].Content : i \in DOMAIN recs}
\* the pass has gone through SyncARecords and SyncARecords returned nil
SyncReturned == passPc = "end" /\ passErr = NoErr
RunningOn(n) == {i \in DOMAIN allocations :
                    allocations[i].NodeID = n /\ allocations[i].ClientStatus = "running"}

\* syncDNSRecords returns
PassReturns == passPc = "end" /\ passPc' = "idle"
PassLocalsEmpty ==
    /\ allocList = << >> /\ nodeMap = EmptyMap /\ lookups = << >> /\ nodes = << >>
    /\ ips = << >> /\ currentRecords = << >> /\ delQueue = << >> /\ createQueue = << >>
    /\ calls = << >> /\ passErr = NoErr

(***************************************************************************)
(* Properties of SyncARecords (SpecSync).                                  *)
(***************************************************************************)

\* C1: for a duplicate-free desired list D and any listing R, a pass whose
\* provider calls all succeed deletes exactly the records of R whose content
\* is not in D, creates exactly the addresses of D that no record of R has,
\* and leaves the published contents equal to D.
C1_DiffExact ==
    (SyncReturned /\ NoDuplicates(ips) /\ AllCallsOk(calls)) =>
        /\ {calls[k].id : k \in CallIdx(calls, "delete")} =
               {currentRecords[i].ID : i \in {j \in DOMAIN currentRecords :
                                                  currentRecords[j].Content \notin Range(ips)}}
        /\ {calls[k].content : k \in CallIdx(calls, "create")} =
               Range(ips) \ Contents(currentRecords)
        /\ Contents(records) = Range(ips)

\* C2: with an empty desired list and a successful listing the pass issues
\* one delete per listed record, in listing order, and no create.
C2_EmptyDeletesAll ==
    (SyncReturned /\ Len(ips) = 0) =>
        /\ CallIdx(calls, "create") = {}
        /\ LET dels == SelectSeq(calls, LAMBDA c : c.op = "delete")
           IN  [i \in DOMAIN dels |-> dels[i].id] =
                   [i \in DOMAIN currentRecords |-> currentRecords[i].ID]

C2_Witness ==
    /\ SyncReturned
    /\ Len(ips) = 0
    /\ Len(currentRecords) = 2
    /\ currentRecords[1].Content = currentRecords[2].Content
    /\ Cardinality(CallIdx(calls, "delete")) = 2

\* C5: a listed record whose content is desired gets no provider call: it
\* is not deleted, its content is not created again, it stays published as
\* it was, and a pass issues nothing but list, delete and create calls.
C5_DesiredUntouched ==
    /\ \A k \in DOMAIN calls : calls[k].op \in {"list", "delete", "create"}
    /\ \A i \in DOMAIN currentRecords :
           currentRecords[i].Content \in Range(ips) =>
               /\ \A k \in CallIdx(calls, "delete") : calls[k].id # currentRecords[i].ID
               /\ \A k \in CallIdx(calls, "create") :
                      calls[k].content # currentRecords[i].Content
               /\ currentRecords[i] \in Range(records)

C5_Witness ==
    /\ SyncReturned
    /\ \E i \in DOMAIN currentRecords : currentRecords[i].Content \in Range(ips)
    /\ \E k \in CallIdx(calls, "delete") : calls[k].ok
    /\ \E k \in CallIdx(calls, "create") : calls[k].ok

\* C6: after a pass whose provider calls all succeeded, the next pass with
\* the same desired list issues no create and no delete.
C6_SecondPassQuiet ==
    (passPc = "end" /\ passCount >= 2 /\ AllCallsOk(lastCalls)) =>
        CallIdx(calls, "delete") \cup CallIdx(calls, "create") = {}

\* the contents of the listing that are no target
StaleContents == Contents(currentRecords) \ Range(ips)
DeleteCalls == SelectSeq(calls, LAMBDA c : c.op = "delete")
CreateCalls == SelectSeq(calls, LAMBDA c : c.op = "create")

\* C24: when SyncARecords has returned, every delete and every create of the
\* diff has been attempted, whichever calls failed: with no target one delete
\* per listed record, otherwise one delete per stale content of the listing,
\* and one create per target entry that the listing lacks, in target order.
C24_BatchNotStopped ==
    SyncReturned =>
        /\ Len(ips) = 0 =>
               /\ [i \in DOMAIN DeleteCalls |-> DeleteCalls[i].id] =
                      [i \in DOMAIN currentRecords |-> currentRecords[i].ID]
               /\ CreateCalls = << >>
        /\ Len(ips) > 0 =>
               /\ Len(DeleteCalls) = Cardinality(StaleContents)
               /\ \A c \in StaleContents :
                      \E k \in DOMAIN DeleteCalls : \E i \in DOMAIN currentRecords :
                          /\ currentRecords[i].ID = DeleteCalls[k].id
                          /\ currentRecords[i].Content = c
               /\ [i \in DOMAIN CreateCalls |-> CreateCalls[i].content] =
                      SelectSeq(ips, LAMBDA t : t \notin Contents(currentRecords))

C24_Witness ==
    /\ SyncReturned
    /\ Len(calls) = 4
    /\ calls[2].op = "delete" /\ ~calls[2].ok
    /\ calls[3].op = "delete" /\ calls[3].ok
    /\ calls[4].op = "create" /\ calls[4].ok

\* C31: in the calls of a pass no delete follows a create, and no create is
\* made while a delete of the pass is still to be issued.
C31_DeleteBeforeCreate ==
    /\ \A i, j \in DOMAIN calls :
           (i < j /\ calls[i].op = "create") => calls[j].op = "create"
    /\ delQueue # << >> => CallIdx(calls, "create") = {}

C31_Witness ==
    /\ SyncReturned
    /\ Len(calls) = 5
    /\ calls[2].op = "delete"
    /\ calls[3].op = "delete"
    /\ calls[4].op = "create"
    /\ calls[5].op = "create"

(***************************************************************************)
(* Properties of the resolver and of the address extraction (SpecNodes,    *)
(* SpecPass).                                                              *)
(***************************************************************************)
NodesKnown == passPc \in {"extract", "list"}

\* C4 as stated: the address of a returned node is in the desired list iff
\* the node's status is "ready" and its address is non-empty.
C4_AddressIffEligible ==
    passPc = "list" =>
        \A i \in DOMAIN nodes :
            nodes[i].PublicIPAddress \in Range(ips) <=>
                (nodes[i].Status = "ready" /\ nodes[i].PublicIPAddress # "")

\* C4, amended: the desired list holds one entry per returned node whose
\* status is "ready" and whose address is non-empty, that node's address, and
\* nothing else; the address of any other node is in the list only when a
\* node of the first kind has the same address.
C4_EligibleIffIncluded ==
    passPc = "list" =>
        LET elig == {i \in DOMAIN nodes :
                        nodes[i].Status = "ready" /\ nodes[i].PublicIPAddress # ""}
        IN  /\ \A i \in elig : nodes[i].PublicIPAddress \in Range(ips)
            /\ \A a \in Range(ips) : \E i \in elig : nodes[i].PublicIPAddress = a
            /\ Len(ips) = Cardinality(elig)

C4_Witness ==
    /\ passPc = "list"
    /\ Len(nodes) = 2
    /\ Len(ips) = 1
    /\ \E i, j \in DOMAIN nodes :
           /\ nodes[i].Status = "down"
           /\ nodes[j].Status = "ready"
           /\ nodes[i].PublicIPAddress = nodes[j].PublicIPAddress
           /\ ips = <<nodes[j].PublicIPAddress>>

\* C7: however many eligible nodes share an address, a pass issues at most
\* one create call for it.
C7_OneCreatePerAddress ==
    \A a \in Addrs : Cardinality({k \in CallIdx(calls, "create") : calls[k].content = a}) <= 1

\* C8: the resolver's map and its result hold at most one entry per node id,
\* and a node is in the result under its own id only.
C8_OneEntryPerNode ==
    /\ \A k1, k2 \in DOMAIN nodeMap : nodeMap[k1].ID = nodeMap[k2].ID => k1 = k2
    /\ NodesKnown =>
           /\ \A i, j \in DOMAIN nodes : nodes[i].ID = nodes[j].ID => i = j
           /\ Len(nodes) = Cardinality(DOMAIN nodeMap)

C8_Witness ==
    /\ NodesKnown
    /\ Len(nodes) = 1
    /\ Cardinality(RunningOn(nodes[1].ID)) >= 2

\* C9: a node is in the result only if a running allocation is placed on
\* it, and exactly the running allocations trigger a node lookup.
C9_RunningOnly ==
    /\ \A k \in DOMAIN nodeMap : RunningOn(nodeMap[k].ID) # {}
    /\ \A i \in DOMAIN lookups : RunningOn(lookups[i].NodeID) # {}
    /\ NodesKnown =>
           /\ \A i \in DOMAIN nodes : RunningOn(nodes[i].ID) # {}
           /\ Len(lookups) = Cardinality({i \in DOMAIN allocations :
                                             allocations[i].ClientStatus = "running"})

C9_Witness ==
    /\ NodesKnown
    /\ Len(nodes) = 1
    /\ \E i \in DOMAIN allocations :
           /\ allocations[i].ClientStatus \in {"pending", "failed"}
           /\ allocations[i].NodeID # nodes[1].ID
           /\ RunningOn(allocations[i].NodeID) = {}

\* the nodes of which a lookup of this pass succeeded
LookedUp == {lookups[i].NodeID : i \in {j \in DOMAIN lookups : lookups[j].ok}}
FailedLookups == {i \in DOMAIN lookups : ~lookups[i].ok}

\* C22: a failed node lookup skips that lookup only: the resolver returns
\* exactly the nodes of which a lookup succeeded, it returns no error, and
\* the pass goes on to the address extraction and the DNS sync.
C22_LookupFailureSkipsNode ==
    /\ passErr # NoErr => (passErr = ErrAllocations /\ lookups = << >>)
    /\ FailedLookups # {} => passPc \in {"nodes", "extract", "list"}
    /\ {nodeMap[k].ID : k \in DOMAIN nodeMap} = LookedUp
    /\ NodesKnown =>
           /\ passErr = NoErr
           /\ {nodes[i].ID : i \in DOMAIN nodes} = LookedUp
           /\ \A i \in DOMAIN nodes :
                  /\ nodes[i].Status = nodeInfo[nodes[i].ID].Status
                  /\ nodes[i].PublicIPAddress = nodeInfo[nodes[i].ID].PublicIPAddress

C22_Witness ==
    /\ passPc = "list"
    /\ passErr = NoErr
    /\ Len(nodes) = 1
    /\ ips # << >>
    /\ \E i \in FailedLookups : lookups[i].NodeID # nodes[1].ID

(***************************************************************************)
(* Properties of the event adapter (SpecEvent).                            *)
(***************************************************************************)
\* the adapter is about to handle the first raw event of its wrapper
AtRawEvent == wpc = "send" /\ pending # << >>
Forwarded == eventChan' # eventChan
\* what the claim expects of a payload field, read off the raw value
ExpectedField(payload, value) ==
    IF payload.isNil \/ ~value.present \/ ~value.isString THEN "" ELSE value.str

\* C14: every queued event has one of the four accepted types; a raw event
\* of another type adds nothing to the queue, reports no error and leaves the
\* adapter running; a raw event adds at most one event to the queue.
C14_AcceptedTypesOnly ==
    /\ [](\A i \in DOMAIN eventChan : eventChan[i].Type \in
              {"AllocationUpdated", "NodeUpdated", "JobRegistered", "JobDeregistered"})
    /\ [][AtRawEvent =>
             /\ Len(eventChan') <= Len(eventChan) + 1
             /\ Forwarded => /\ eventChan' = Append(eventChan, eventChan'[Len(eventChan')])
                             /\ eventChan'[Len(eventChan')].Type = Head(pending).Type
             /\ Head(pending).Type \notin
                    {"AllocationUpdated", "NodeUpdated", "JobRegistered", "JobDeregistered"} =>
                    /\ ~Forwarded
                    /\ eventErrorChan' = eventErrorChan
                    /\ werr' = werr
                    /\ wpc' = wpc]_vars

C14_Witness ==
    /\ wpc = "recv"
    /\ eventChan = << >>
    /\ pending = << >>
    /\ ~ctxDone
    /\ werr = NoErr
    /\ eventErrorChan = << >>

\* C15: for an accepted type the event is forwarded whatever its payload
\* (while the context is live), and its NodeID / JobID is the payload's value
\* when that is a string and empty when the payload is nil, lacks the key or
\* holds a value that is no string.
C15_PayloadBestEffort ==
    [][(AtRawEvent /\ Head(pending).Type \in
            {"AllocationUpdated", "NodeUpdated", "JobRegistered", "JobDeregistered"}) =>
          /\ (pending' # pending /\ ~ctxDone) => Forwarded
          /\ Forwarded =>
                LET out == eventChan'[Len(eventChan')]
                    raw == Head(pending)
                IN  /\ out.NodeID = ExpectedField(raw.Payload, raw.Payload.NodeID)
                    /\ out.JobID = ExpectedField(raw.Payload, raw.Payload.JobID)]_vars

C15_Witness ==
    /\ Len(eventChan) = 1
    /\ ~eventChan[1].Details.raw.Payload.isNil
    /\ eventChan[1].Details.raw.Payload.NodeID = OtherValue("123")
    /\ eventChan[1].Details.raw.Payload.JobID = StringValue("id-1")
    /\ eventChan[1].NodeID = ""
    /\ eventChan[1].JobID = "id-1"

\* C16: every queued event has a non-empty type, a timestamp that is not the
\* zero Time and details that are not nil, and its timestamp is the raw
\* event's index in nanoseconds since the epoch, also for index 0.
C16_EventInvariant ==
    \A i \in DOMAIN eventChan :
        /\ eventChan[i].Type # ""
        /\ ~IsZero(eventChan[i].Timestamp)
        /\ ~eventChan[i].Details.isNil
        /\ eventChan[i].Timestamp.nanos = eventChan[i].Details.raw.Index

C16_Witness ==
    /\ Len(eventChan) = 1
    /\ eventChan[1].Details.raw.Index = 0
    /\ eventChan[1].Timestamp.nanos = 0

(***************************************************************************)
(* Properties of the event queue (SpecQueue).                              *)
(***************************************************************************)
\* the adapter is about to handle a raw event of an accepted type
AtAcceptedEvent == AtRawEvent /\ Head(pending).Type \in AcceptedTypes

\* C21: the queue never holds more than EventChanCap entries; while the
\* context is not cancelled the adapter leaves an accepted event only by
\* putting it at the end of the queue, and with a full queue it stays where
\* it is; an entry leaves the queue only at its head, taken by the loop.
C21_Backpressure ==
    /\ [](Len(eventChan) <= EventChanCap)
    /\ [][(AtAcceptedEvent /\ ~ctxDone /\ pending' # pending) =>
             /\ Len(eventChan') = Len(eventChan) + 1
             /\ SubSeq(eventChan', 1, Len(eventChan)) = eventChan
             /\ eventChan'[Len(eventChan')].Details.raw = Head(pending)
             /\ pending' = Tail(pending)]_vars
    /\ [][(AtAcceptedEvent /\ ~ctxDone /\ Len(eventChan) = EventChanCap) =>
             (pending' = pending /\ wpc' = wpc)]_vars
    /\ [][Len(eventChan') < Len(eventChan) =>
             (pc = "select" /\ pc' = "debounce" /\ eventChan' = Tail(eventChan))]_vars

C21_Witness ==
    /\ ~ctxDone
    /\ Len(eventChan) = EventChanCap
    /\ eventChan[EventChanCap].Details.raw.Index = MaxStreamEvents
    /\ eventChan[EventChanCap - 1].Details.raw.Index = MaxStreamEvents - 1
    /\ streamed = MaxStreamEvents
    /\ pending = << >>

(***************************************************************************)
(* Properties of the configuration loading (SpecConfig).                   *)
(***************************************************************************)
\* the variable is unset or empty
Missing(key) == ~environ[key].set \/ environ[key].value = ""
ConfigLoaded == pc # "main"

\* C28 as stated: a pass is never entered with an empty job name or an empty
\* hostname in the configuration; when TRAEFIK_JOB_NAME or DNS_RECORD_NAME is
\* missing LoadConfig fails and the process ends before Run is called.
C28_NoPassWithoutNames ==
    /\ inflight > 0 => (config.TraefikJobName # "" /\ config.DNSRecordName # "")
    /\ (ConfigLoaded /\ (Missing("TRAEFIK_JOB_NAME") \/ Missing("DNS_RECORD_NAME"))) =>
           (pc = "fatal" /\ loadErr # NoErr)

\* C29: when CLOUDFLARE_API_TOKEN, CLOUDFLARE_ZONE_ID or NOMAD_TOKEN is
\* missing, LoadConfig returns a nil configuration and the error of the first
\* missing one, in this order.
C29_FirstMissingNamed ==
    ConfigLoaded =>
        /\ Missing("CLOUDFLARE_API_TOKEN") =>
               (config.isNil /\ loadErr = "CLOUDFLARE_API_TOKEN is not set and is required.")
        /\ (~Missing("CLOUDFLARE_API_TOKEN") /\ Missing("CLOUDFLARE_ZONE_ID")) =>
               (config.isNil /\ loadErr = "CLOUDFLARE_ZONE_ID is not set and is required.")
        /\ (~Missing("CLOUDFLARE_API_TOKEN") /\ ~Missing("CLOUDFLARE_ZONE_ID")
               /\ Missing("NOMAD_TOKEN")) =>
               (config.isNil /\ loadErr = "Nomad token is not set and is required.")

C29_Witness ==
    /\ pc = "fatal"
    /\ environ["CLOUDFLARE_API_TOKEN"] = Setenv("")
    /\ environ["CLOUDFLARE_ZONE_ID"] = NotSet
    /\ environ["NOMAD_TOKEN"] = NotSet
    /\ loadErr = "CLOUDFLARE_API_TOKEN is not set and is required."
    /\ config.isNil

\* C30: with the three required variables set and no other, LoadConfig
\* succeeds with NomadAddress "http://localhost:8686" and LogLevel "info";
\* whenever it succeeds, NomadAddress and LogLevel are the values of
\* NOMAD_ADDR and LOG_LEVEL where these are set and not empty, and the
\* defaults otherwise.
C30_Defaults ==
    ConfigLoaded =>
        /\ (\A k \in EnvNames :
                Missing(k) <=> k \notin {"CLOUDFLARE_API_TOKEN", "CLOUDFLARE_ZONE_ID",
                                         "NOMAD_TOKEN"}) =>
               /\ loadErr = NoErr
               /\ ~config.isNil
               /\ config.NomadAddress = "http://localhost:8686"
               /\ config.LogLevel = "info"
        /\ loadErr = NoErr =>
               /\ config.NomadAddress = IF Missing("NOMAD_ADDR") THEN "http://localhost:8686"
                                         ELSE environ["NOMAD_ADDR"].value
               /\ config.LogLevel = IF Missing("LOG_LEVEL") THEN "info"
                                     ELSE environ["LOG_LEVEL"].value

C30_Witness ==
    /\ pc = "clients"
    /\ loadErr = NoErr
    /\ \A k \in EnvNames :
           environ[k] = IF k \in {"CLOUDFLARE_API_TOKEN", "CLOUDFLARE_ZONE_ID", "NOMAD_TOKEN"}
                        THEN Setenv("custom") ELSE NotSet
    /\ config.NomadAddress = "http://localhost:8686"
    /\ config.LogLevel = "info"

(***************************************************************************)
(* Properties of the metrics hook (SpecHook).                              *)
(***************************************************************************)
\* C33: with the metrics initialised, a returning pass adds one to the sync
\* counter, adds one to the error counter iff it has an error, and writes the
\* timestamp only if it has none; nothing else changes the metrics; so the
\* sync counter is the number of passes that have ended and the error
\* counter is at most that. With the metrics not initialised nothing changes.
C33_CountersFollowPasses ==
    /\ [][(PassReturns /\ ~metrics.isNil) =>
             /\ metrics'.SyncTotal = metrics.SyncTotal + 1
             /\ metrics'.SyncErrors = metrics.SyncErrors + (IF passErr # NoErr THEN 1 ELSE 0)
             /\ metrics'.LastSyncSet = (metrics.LastSyncSet \/ passErr = NoErr)]_vars
    /\ [][(~PassReturns \/ metrics.isNil) => metrics' = metrics]_vars
    /\ [](~metrics.isNil =>
             /\ metrics.SyncTotal = passCount - inflight
             /\ metrics.SyncErrors <= metrics.SyncTotal)

C33_Witness ==
    /\ passPc = "idle"
    /\ ~metrics.isNil
    /\ metrics.SyncTotal = MaxPasses
    /\ metrics.SyncErrors = 1
    /\ metrics.LastSyncSet

(***************************************************************************)
(* Properties of the control loop (Spec).                                  *)
(***************************************************************************)
InSync == pc \in {"initSync", "eventSync", "tickSync"}

\* C3: at most one reconciliation pass is in flight, and while one is in
\* flight Run is inside that call: it is not sleeping, not selecting and not
\* starting another pass.
C3_AtMostOnePass ==
    /\ inflight \in {0, 1}
    /\ inflight = 1 <=> passPc # "idle"
    /\ inflight = 1 <=> InSync

C3_Witness ==
    /\ inflight = 1
    /\ pc = "eventSync"
    /\ eventChan # << >>
    /\ tickReady
    /\ ctxDone
    /\ eventErrorChan # << >>

\* C10: Run makes exactly one pass before it starts the watcher, creates
\* the ticker or reads a trigger, and that pass needs no event.
C10_InitialSyncFirst ==
    /\ pc \in {"start", "initSync", "watch"} =>
           /\ wpc = "none"
           /\ ~tickerArmed
           /\ ~tickReady
           /\ streamed = 0
           /\ eventChan = << >>
    /\ pc = "start" => passCount = 0
    /\ pc = "initSync" => passCount = 1 /\ inflight = 1
    /\ pc \in {"watch", "ticker"} =>
           /\ passCount = 1
           /\ inflight = 0
           /\ metrics.SyncTotal = 1
           /\ ~tickerArmed

C10_Witness ==
    /\ pc = "watch"
    /\ metrics.SyncTotal = 1
    /\ ctxDone
    /\ streamed = 0
    /\ Len(records) = 2

\* C12: a pass after an event starts only from a debounce sleep that has run
\* its DebounceSeconds; the sleep starts when the event is taken from the
\* queue, only runs down, is not changed by an event that is queued meanwhile,
\* and a pass after a tick starts from the select without any sleep.
C12_OneFixedDebounce ==
    [][/\ (pc # "eventSync" /\ pc' = "eventSync") => (pc = "debounce" /\ sleepLeft = 0)
       /\ (pc # "debounce" /\ pc' = "debounce") =>
              /\ pc = "select"
              /\ eventChan # << >>
              /\ eventChan' = Tail(eventChan)
              /\ sleepLeft' = DebounceSeconds
       /\ pc = "debounce" =>
              /\ pc' \in {"debounce", "eventSync"}
              /\ sleepLeft' \in {sleepLeft, sleepLeft - 1}
              /\ eventChan' # eventChan => (sleepLeft' = sleepLeft /\ pc' = pc)
       /\ (pc # "tickSync" /\ pc' = "tickSync") =>
              (pc = "select" /\ sleepLeft = 0 /\ sleepLeft' = 0)]_vars

C12_Witness ==
    /\ pc = "eventSync"
    /\ sleepLeft = 0
    /\ eventChan # << >>
    /\ inWait[1]
    /\ tickReady

\* C13: an event that was queued while a debounce sleep was running is
\* absorbed into the reconciliation that sleep precedes: it does not start a
\* sleep and a pass of its own.
C13_BurstOnePass ==
    [][(pc = "select" /\ pc' = "debounce") => ~inWait[1]]_vars

\* C17: after an error item of the stream the adapter reads the stream no
\* more: its next step is the report of that error.
C17_StreamErrorReported ==
    [][wpc = "streamErr" =>
          (wpc' = "streamErr" \/ (wpc' = "report" /\ werr' = ErrStreamItem))]_vars

\* C19: once the watcher has put the error of a failed stream into the error
\* channel, no reconciliation pass is started.
C19_FatalIsTerminal ==
    [][((eventErrorChan # << >> /\ Head(eventErrorChan) = ErrStream)
           \/ (pc = "stopped" /\ runResult = ErrStream)) =>
          inflight' <= inflight]_vars

\* C20: when Run has stopped after a cancellation and the stream had not
\* failed before the cancellation, the result of Run is one main treats as a
\* normal stop.
C20_CancelIsNormalStop ==
    (pc = "stopped" /\ ctxDone /\ runResult # ErrStream) => IsNormalStop(runResult)

\* C23: when the allocation listing has failed the pass is at its end with
\* no provider call made; the published records change only with a provider
\* call of a pass, so that pass leaves them as they were; and when it
\* returns Run goes on, its result untouched.
C23_ListingFailureEndsPass ==
    /\ [](passErr = ErrAllocations => (passPc = "end" /\ calls = << >>))
    /\ [][records' # records => Len(calls') = Len(calls) + 1]_vars
    /\ [][(PassReturns /\ passErr = ErrAllocations) =>
             /\ pc' \in {"watch", "select"}
             /\ runResult' = runResult
             /\ records' = records
             /\ metrics'.SyncErrors = Inc(metrics.SyncErrors)]_vars
    /\ [](runResult # ErrAllocations)

C23_Witness ==
    /\ pc = "select"
    /\ passPc = "idle"
    /\ runResult = NoErr
    /\ metrics.SyncTotal = 1
    /\ metrics.SyncErrors = 1
    /\ metrics.TraefikNodes = 0
    /\ records = <<[ID |-> RecID(1), Content |-> AddrPool[2]]>>

\* C25: at the end of a pass its error is nil iff the record listing was
\* called and succeeded; it is the allocation error iff no provider call was
\* made, and the listing error iff the failed listing is the only provider
\* call; so no failed delete or create shows in the outcome.
C25_PassErrorIffListingFailed ==
    passPc = "end" =>
        /\ passErr \in {NoErr, ErrAllocations, ErrListRecords}
        /\ passErr = NoErr <=> (calls # << >> /\ calls[1] = Call("list", NoID, "", TRUE))
        /\ passErr = ErrAllocations <=> calls = << >>
        /\ passErr = ErrListRecords <=> calls = <<Call("list", NoID, "", FALSE)>>

C25_Witness ==
    /\ passPc = "end"
    /\ passErr = NoErr
    /\ Len(calls) = 3
    /\ calls[2].op = "delete" /\ ~calls[2].ok
    /\ calls[3].op = "create" /\ ~calls[3].ok
    /\ ~ctxDone

\* C34 as stated: when the loop is at its select and the context is
\* cancelled, the loop takes neither an event nor a tick: it stays or stops.
C34_CancelWinsAtSelect ==
    [][(pc = "select" /\ ctxDone) => (pc' = "select" \/ pc' = "stopped")]_vars

\* C35: while the loop is in the debounce wait and the context is cancelled,
\* or is being cancelled, the wait goes on second by second and the loop
\* leaves it only at its end and only into the pass after the event; Run
\* stops nowhere but at its select.
C35_CancelWaitsForDebounce ==
    /\ [][(pc = "debounce" /\ ctxDone') =>
             /\ sleepLeft' \in {sleepLeft, sleepLeft - 1}
             /\ \/ pc' = "debounce"
                \/ (sleepLeft = 0 /\ pc' = "eventSync" /\ passPc' = "allocs"
                       /\ inflight' = inflight + 1)]_vars
    /\ [][(pc # "stopped" /\ pc' = "stopped") => pc = "select"]_vars

C35_Witness ==
    /\ pc = "eventSync"
    /\ passPc = "allocs"
    /\ ctxDone
    /\ sleepLeft = 0
    /\ wpc = "send"

\* C32 as stated: when a pass returns, the end hook has run once: the sync
\* counter has counted the pass, the error counter has counted it iff the pass
\* has an error, and, the allocation listing having succeeded, the gauges
\* hold the number of desired addresses and the number of eligible nodes.
C32_EndHookCarriesPass ==
    [][PassReturns =>
          /\ metrics'.SyncTotal = Inc(metrics.SyncTotal)
          /\ metrics'.SyncErrors = IF passErr # NoErr THEN Inc(metrics.SyncErrors)
                                    ELSE metrics.SyncErrors
          /\ passErr # ErrAllocations =>
                 /\ metrics'.DNSRecordsTotal = Len(ips)
                 /\ metrics'.TraefikNodes =
                        Cardinality({i \in DOMAIN nodes : IsEligible(nodes[i])})]_vars

\* C27 as stated: the controller is ready exactly when a pass has succeeded,
\* and once ready it stays ready.
C27_ReadyAfterFirstSuccess ==
    /\ [](ready <=> metrics.LastSyncSet)
    /\ [][ready => ready']_vars

(***************************************************************************)
(* Properties of the control loop under fair scheduling (SpecFair,         *)
(* SpecStop).                                                              *)
(***************************************************************************)

\* C11: unless Run stops (cancellation or a watcher error), the timer starts
\* a reconciliation pass again and again, whatever the stream delivers, also
\* when it delivers nothing.
C11_PeriodicFallback ==
    [](pc # "stopped") => []<>(pc = "tickSync")

C11_Witness ==
    /\ pc = "tickSync"
    /\ metrics.SyncTotal = MaxPasses
    /\ wpc = "recv"
    /\ streamed = MaxStreamEvents - 1
    /\ eventChan = << >>
    /\ ~ctxDone

\* Stream() has failed: WatchEvents has returned the wrapped setup error
StreamFailed == wpc \in {"report", "done"} /\ werr \in {ErrStream, ErrStreamCanceled}

\* C18 as stated: when the stream could not be established and Run has
\* stopped, the result of Run is exactly the watcher's error.
C18_ReturnsStreamError ==
    (pc = "stopped" /\ StreamFailed) => runResult = werr

\* C18, amended: when the stream cannot be established the watcher ends
\* without a retry, its error enters the error channel at most once, Run
\* eventually stops, and its result is that error (fatal for main) unless the
\* context was cancelled, in which case it may be the context's error.
C18_SetupFailureStops ==
    /\ [][(wpc = "report" \/ wpc = "done") => (wpc' = "report" \/ wpc' = "done")]_vars
    /\ [][wpc = "done" => (wpc' = "done" /\ Len(eventErrorChan') <= Len(eventErrorChan))]_vars
    /\ [][Len(eventErrorChan') > Len(eventErrorChan) =>
             /\ wpc = "report"
             /\ wpc' = "done"
             /\ eventErrorChan' = <<werr>>]_vars
    /\ []((pc = "stopped" /\ StreamFailed) =>
             \/ (runResult = werr /\ ~IsNormalStop(runResult))
             \/ (ctxDone /\ runResult = ErrCanceled))
    /\ (StreamFailed ~> pc = "stopped")

C18_Witness ==
    /\ pc = "stopped"
    /\ wpc = "done"
    /\ werr = ErrStream
    /\ runResult = ErrStream
    /\ eventErrorChan = << >>
    /\ ~ctxDone

\* C26: when a pass returns, failed or not, Run goes on to the watcher start
\* (after the initial sync) or back to its select, its result untouched; a
\* pass is entered with every local of the last pass gone; Run stops only at
\* its select, on a cancelled context or an error of the watcher; and after
\* a failed pass a new pass begins at some time unless Run has stopped.
C26_LoopSurvivesFailedPass ==
    /\ [][PassReturns => (pc' \in {"watch", "select"} /\ runResult' = runResult)]_vars
    /\ [][(passPc # "allocs" /\ passPc' = "allocs") => (passPc = "idle" /\ PassLocalsEmpty')]_vars
    /\ [][(pc # "stopped" /\ pc' = "stopped") =>
             /\ pc = "select"
             /\ passPc = "idle"
             /\ \/ (ctxDone /\ runResult' = ErrCanceled)
                \/ (eventErrorChan # << >> /\ runResult' = Head(eventErrorChan))]_vars
    /\ []((passPc = "end" /\ (passErr # NoErr \/ ~AllCallsOk(calls))) =>
             <>(passPc = "allocs" \/ pc = "stopped"))

C26_Witness ==
    /\ passPc = "allocs"
    /\ pc = "eventSync"
    /\ metrics.SyncTotal = 1
    /\ metrics.SyncErrors = 1
    /\ ~ctxDone

\* C36: a time comes from which on, if the context is cancelled, Run has
\* stopped and the watcher goroutine has ended, whatever the queue holds and
\* wherever the watcher stood (receiving, sending to a full queue, reporting).
C36_CancelStopsAll ==
    <>[](ctxDone => (pc = "stopped" /\ wpc = "done"))

C36_Witness ==
    /\ ctxDone
    /\ pc = "stopped"
    /\ runResult = ErrCanceled
    /\ wpc = "done"
    /\ werr = ErrCanceled
    /\ Len(eventChan) = EventChanCap

(***************************************************************************)
(* Properties of a pass as a function of what it reads (Spec).             *)
(***************************************************************************)

\* the requests of the pass: what was called and on what
IssuedCalls ==
    {<<calls[k].op, IF calls[k].op = "create" THEN calls[k].content ELSE calls[k].id>> :
        k \in DOMAIN calls}

\* the nodes of the running allocations, in the order of the listing
RunningNodeIDs ==
    LET running == SelectSeq(allocations, IsRunning)
    IN  [i \in DOMAIN running |-> running[i].NodeID]

\* the addresses the pass read: of the nodes whose lookup succeeded
ReadAddrs ==
    {nodeInfo[n].PublicIPAddress :
        n \in {m \in LookedUp : nodeInfo[m].Status = "ready" /\ nodeInfo[m].PublicIPAddress # ""}}

\* the ids of the listing the pass read, one per content (the last one)
ReadIDs(stale) ==
    {currentRecords[i].ID :
        i \in {j \in DOMAIN currentRecords :
                  /\ currentRecords[j].Content \in stale
                  /\ \A k \in DOMAIN currentRecords :
                         currentRecords[k].Content = currentRecords[j].Content => k <= j}}

\* the requests that follow from the reads of the pass and from the failure
\* of its reads alone
PlannedCalls ==
    IF passErr = ErrAllocations THEN {}
    ELSE IF passErr = ErrListRecords THEN {<<"list", NoID>>}
    ELSE {<<"list", NoID>>}
         \cup (IF ReadAddrs = {}
               THEN {<<"delete", currentRecords[i].ID>> : i \in DOMAIN currentRecords}
               ELSE {<<"delete", id>> : id \in ReadIDs(Contents(currentRecords) \ ReadAddrs)})
         \cup {<<"create", a>> : a \in ReadAddrs \ Contents(currentRecords)}

\* C37: when a pass is over, the node lookups it made are those of the
\* running allocations of the orchestrator as it is, the listing it used is
\* one it fetched itself, and the set of its provider calls is the one that
\* follows from these reads and their failures, whatever passes, events and
\* failures came before.
C37_PassIsAFunctionOfItsReads ==
    passPc = "end" =>
        /\ passErr # ErrAllocations =>
               [i \in DOMAIN lookups |-> lookups[i].NodeID] = RunningNodeIDs
        /\ passErr = NoErr =>
               \E k \in DOMAIN calls : calls[k].op = "list" /\ calls[k].ok
        /\ IssuedCalls = PlannedCalls

C37_Witness ==
    /\ passPc = "end"
    /\ pc = "eventSync"
    /\ passCount = MaxPasses
    /\ metrics.SyncErrors = MaxPasses - 1
    /\ passErr = NoErr
    /\ IssuedCalls = {<<"list", NoID>>, <<"delete", RecID(1)>>, <<"create", AddrPool[1]>>}

\* the addresses of the nodes that are ready and host a running allocation
\* of the job, in the orchestrator as it is
LiveAddrs ==
    {nodeInfo[n].PublicIPAddress :
        n \in {m \in NodeIds : /\ RunningOn(m) # {}
                               /\ nodeInfo[m].Status = "ready"
                               /\ nodeInfo[m].PublicIPAddress # ""}}

\* C38: no pass deletes a listed record whose content is the address of a
\* node that is ready and hosts a running allocation of the job, also when
\* node lookups of the pass fail.
C38_KeepsLiveRecords ==
    \A k \in DOMAIN calls :
        (calls[k].op = "delete" /\ calls[k].ok) =>
            \A i \in DOMAIN currentRecords :
                currentRecords[i].ID = calls[k].id => currentRecords[i].Content \notin LiveAddrs

(***************************************************************************)
(* Convergence of the published records (SpecConverge).                    *)
(***************************************************************************)

\* a call of the pass has failed: the listing of the allocations, a node
\* lookup, the listing of the records, a delete or a create
CallFailed == passErr # NoErr \/ FailedLookups # {} \/ ~AllCallsOk(calls)

\* the published contents are the eligible addresses
Converged == Contents(records) = LiveAddrs

\* C39: in a run in which no call fails and Run does not stop, a time comes
\* from which on the published contents are the eligible addresses and no
\* pass issues a create or a delete, whatever records the hostname started
\* with.
C39_EventualConvergence ==
    ([]~CallFailed /\ [](pc # "stopped")) =>
        <>[](Converged /\ CallIdx(calls, "create") = {} /\ CallIdx(calls, "delete") = {})

C39_Witness ==
    /\ passPc = "end"
    /\ passErr = NoErr
    /\ records = <<[ID |-> RecID(3), Content |-> AddrPool[1]]>>
    /\ calls = <<Call("list", NoID, "", TRUE), Call("delete", RecID(1), "", TRUE)>>

(***************************************************************************)
(* Where the mutations of a pass come from (SpecOrigin).                   *)
(***************************************************************************)

\* the addresses of the nodes the pass resolved: looked up with success for
\* a running allocation, ready, with an address
ResolvedAddrs ==
    {nodes[i].PublicIPAddress :
        i \in {j \in DOMAIN nodes : /\ nodes[j].ID \in LookedUp
                                     /\ RunningOn(nodes[j].ID) # {}
                                     /\ nodes[j].Status = "ready"
                                     /\ nodes[j].PublicIPAddress # ""}}

\* C40: every create of a pass carries the configured hostname and an
\* address of a node the pass resolved as running the job, ready and with an
\* address; every delete carries the id of a record of the listing the pass
\* made before for the configured hostname.
C40_MutationsFromOwnReads ==
    \A k \in DOMAIN calls :
        /\ calls[k].op = "create" =>
               /\ calls[k].name = config.DNSRecordName
               /\ calls[k].content \in ResolvedAddrs
        /\ calls[k].op = "delete" =>
               /\ \E i \in DOMAIN currentRecords : currentRecords[i].ID = calls[k].id
               /\ \E j \in 1..(k - 1) : /\ calls[j].op = "list"
                                         /\ calls[j].ok
                                         /\ calls[j].name = config.DNSRecordName

C40_Witness ==
    /\ passPc = "end"
    /\ Len(lookups) = 2
    /\ FailedLookups = {1}
    /\ Len(calls) = 4
    /\ calls[2].op = "delete" /\ calls[2].ok
    /\ calls[3].op = "delete" /\ calls[3].ok
    /\ calls[4] = [op |-> "create", name |-> config.DNSRecordName, id |-> RecID(3),
                   content |-> AddrPool[2], ok |-> TRUE]

====
